---- MODULE Spec2Model ----
(***************************************************************************)
(* A model of the jp-holidays Calendar engine: the overlay (custom and     *)
(* removed) layered over the built-in holiday dataset, the lookups, the    *)
(* range enumerations and the holiday and business-day searches.           *)
(*                                                                         *)
(* A time.Time is a record [abs, off]: abs is the instant in minutes since *)
(* 0001-01-01 00:00 UTC and off the offset of its location in minutes.     *)
(* A date is the record [year, month, day] of the source.                  *)
(*                                                                         *)
(* cal is the overlay and call the last sequential call; mu is the         *)
(* Calendar's sync.RWMutex and thr the frame of each goroutine that calls  *)
(* the methods step by step (SpecConc, SpecExhaust, SpecLive); heap holds  *)
(* the maps of the Calendars the process has made (SpecCals); gen is a run *)
(* of the generator cmd/genholidays (SpecGen, SpecGenLive).                *)
(***************************************************************************)
EXTENDS Integers, Sequences, FiniteSets, TLC

VARIABLES cal, call, mu, thr, heap, gen

vars == <<cal, call, mu, thr, heap, gen>>

(***************************************************************************)
(* The civil calendar of package time, as far as the engine uses it.       *)
(***************************************************************************)
MinutesPerDay == 24 * 60

\* time.FixedZone("Asia/Tokyo", 9*60*60), in minutes.
jstZone == 9 * 60

UTC == 0

isLeap(year) == year % 4 = 0 /\ (year % 100 # 0 \/ year % 400 = 0)

\* Days from 0001-01-01 to January 1 of year.
daysSinceEpoch(year) ==
    LET y == year - 1
    IN  365 * y + (y \div 4) - (y \div 100) + (y \div 400)

\* daysBefore[m] is the number of days of a non-leap year before month m.
daysBefore == <<0, 31, 59, 90, 120, 151, 181, 212, 243, 273, 304, 334, 365>>

\* Days of the year before month m (1..13), leap day included.
daysBeforeIn(year, m) ==
    daysBefore[m] + (IF isLeap(year) /\ m >= 3 THEN 1 ELSE 0)

\* time.Date(year, month, day, hour, min, 0, 0, loc): month and day may lie
\* outside their ranges and are normalised by the arithmetic.
Date(year, month, day, hour, min, off) ==
    LET m0 == month - 1
        y  == year + (m0 \div 12)
        m  == (m0 % 12) + 1
        days == daysSinceEpoch(y) + daysBeforeIn(y, m) + day - 1
    IN  [abs |-> days * MinutesPerDay + hour * 60 + min - off, off |-> off]

\* The day number (0 is 0001-01-01) of t on the wall clock of its location.
absDays(t) == (t.abs + t.off) \div MinutesPerDay

\* The year and the day of the year (0-based) of a day number.
absDate(days) ==
    LET n400 == days \div 146097
        d1   == days % 146097
        c100 == d1 \div 36524
        n100 == c100 - (c100 \div 4)
        d2   == d1 - 36524 * n100
        n4   == d2 \div 1461
        d3   == d2 % 1461
        c1   == d3 \div 365
        n1   == c1 - (c1 \div 4)
    IN  [year |-> 400 * n400 + 100 * n100 + 4 * n4 + n1 + 1,
         yday |-> d3 - 365 * n1]

\* t.Date(): year, month and day of t in its own location.  The month is
\* estimated as yday / 31 and corrected with the table, February 29 apart.
TimeDate(t) ==
    LET yd   == absDate(absDays(t))
        leap == isLeap(yd.year)
        day  == IF leap /\ yd.yday > 31 + 29 - 1 THEN yd.yday - 1 ELSE yd.yday
        m0   == day \div 31
        end  == daysBefore[m0 + 2]
    IN  IF leap /\ yd.yday = 31 + 29 - 1
        THEN [year |-> yd.year, month |-> 2, day |-> 29]
        ELSE IF day >= end
        THEN [year |-> yd.year, month |-> m0 + 2, day |-> day - end + 1]
        ELSE [year |-> yd.year, month |-> m0 + 1, day |-> day - daysBefore[m0 + 1] + 1]

\* t.In(loc): the same instant seen in another location.
In(t, off) == [abs |-> t.abs, off |-> off]

\* t.Weekday(): 0 is Sunday, ..., 6 is Saturday; 0001-01-01 is a Monday.
Sunday == 0
Saturday == 6
Weekday(t) == (absDays(t) + 1) % 7

\* t.AddDate(0, 0, days).
AddDate(t, days) ==
    LET d == TimeDate(t)
        minutes == (t.abs + t.off) % MinutesPerDay
    IN  Date(d.year, d.month, d.day + days, minutes \div 60, minutes % 60, t.off)

\* t.Before(u), t.After(u): instants compared, whatever their locations.
TimeBefore(t, u) == t.abs < u.abs
TimeAfter(t, u) == t.abs > u.abs

\* time.Time{}: 0001-01-01 00:00 UTC.
ZeroTime == [abs |-> 0, off |-> UTC]

(***************************************************************************)
(* The date type: the key of the maps.                                     *)
(***************************************************************************)
\* The date read in the zone the instant carries, without t.In(jstZone).
dateFromTimeOwnZone(t) == TimeDate(t)

\* The date read nine hours behind UTC instead of nine hours ahead.
dateFromTimeWest(t) == TimeDate(In(t, -jstZone))

dateFromTime(t) == TimeDate(In(t, jstZone))

toTime(d) == Date(d.year, d.month, d.day, 0, 0, UTC)

\* before that compares the day first, then the month, then the year.
beforeDayFirst(d, other) ==
    IF d.day # other.day THEN d.day < other.day
    ELSE IF d.month # other.month THEN d.month < other.month
    ELSE d.year < other.year

before(d, other) ==
    IF d.year # other.year THEN d.year < other.year
    ELSE IF d.month # other.month THEN d.month < other.month
    ELSE d.day < other.day

after(d, other) == before(other, d)

inRange(d, from, to) == ~before(d, from) /\ ~before(to, d)

(***************************************************************************)
(* builtinHolidays, the generated dataset: entries of 2026.                *)
(***************************************************************************)
mkDate(y, m, dd) == [year |-> y, month |-> m, day |-> dd]

builtinEntries ==
    { <<2026, 1, 1, "Ganjitsu">>,
      <<2026, 1, 12, "Seijin no Hi">>,
      <<2026, 4, 29, "Showa no Hi">>,
      <<2026, 5, 3, "Kenpo Kinenbi">>,
      <<2026, 5, 4, "Midori no Hi">>,
      <<2026, 5, 5, "Kodomo no Hi">>,
      <<2026, 5, 6, "Kyujitsu">>,
      <<2026, 7, 20, "Umi no Hi">>,
      <<2026, 11, 23, "Kinro Kansha no Hi">> }

builtinHolidays ==
    [hd \in { mkDate(e[1], e[2], e[3]) : e \in builtinEntries } |->
        (CHOOSE e \in builtinEntries : mkDate(e[1], e[2], e[3]) = hd)[4]]

(***************************************************************************)
(* Ranging over a Go map visits its keys in an unspecified order.  An      *)
(* iteration is modelled as a sequence of the keys; the calls below are    *)
(* given either the ascending or the descending one.                       *)
(***************************************************************************)
RECURSIVE ascending(_)
ascending(S) ==
    IF S = {} THEN <<>>
    ELSE LET m == CHOOSE x \in S : \A y \in S : ~before(y, x)
         IN  <<m>> \o ascending(S \ {m})

reverse(s) == [i \in 1..Len(s) |-> s[Len(s) + 1 - i]]

\* The keys in the iteration order chosen by rev.
rangeOrder(keys, rev) ==
    IF rev THEN reverse(ascending(keys)) ELSE ascending(keys)

builtinAscending == rangeOrder(DOMAIN builtinHolidays, FALSE)
builtinDescending == rangeOrder(DOMAIN builtinHolidays, TRUE)

\* for hd, name := range builtinHolidays
rangeBuiltin(rev) == IF rev THEN builtinDescending ELSE builtinAscending

\* sort.Slice(result, func(i, j) { return result[i].Date.Before(result[j].Date) })
RECURSIVE insertByDate(_, _)
insertByDate(h, s) ==
    IF s = <<>> THEN <<h>>
    ELSE IF TimeBefore(h.Date, Head(s).Date) THEN <<h>> \o s
    ELSE <<Head(s)>> \o insertByDate(h, Tail(s))

\* A sort.Slice that leaves the slice as it is.
sortSliceNone(s) == s

RECURSIVE sortSlice(_)
sortSlice(s) ==
    IF s = <<>> THEN <<>>
    ELSE insertByDate(Head(s), sortSlice(Tail(s)))

(***************************************************************************)
(* The Calendar.  c is the record [custom, removed]: custom                *)
(* is the map from date to name, removed the set of the keys of the map    *)
(* removed (RemoveHoliday stores only true, RestoreHoliday deletes).       *)
(***************************************************************************)
New == [custom |-> [hd \in {} |-> ""], removed |-> {}]

\* The zero Holiday{}.
ZeroHoliday == [Date |-> ZeroTime, Name |-> ""]

\* lookup with the removed set consulted before the custom map.
lookupRemovedFirst(c, dd) ==
    IF dd \in c.removed THEN [name |-> "", ok |-> FALSE]
    ELSE IF dd \in DOMAIN c.custom THEN [name |-> c.custom[dd], ok |-> TRUE]
    ELSE IF dd \in DOMAIN builtinHolidays
         THEN [name |-> builtinHolidays[dd], ok |-> TRUE]
    ELSE [name |-> "", ok |-> FALSE]

lookup(c, dd) ==
    IF dd \in DOMAIN c.custom THEN [name |-> c.custom[dd], ok |-> TRUE]
    ELSE IF dd \in c.removed THEN [name |-> "", ok |-> FALSE]
    ELSE IF dd \in DOMAIN builtinHolidays
         THEN [name |-> builtinHolidays[dd], ok |-> TRUE]
    ELSE [name |-> "", ok |-> FALSE]

IsHoliday(c, t) == lookup(c, dateFromTime(t)).ok

\* HolidayName that prefers the built-in name of a date to its custom name.
HolidayNameBuiltinFirst(c, t) ==
    LET dd == dateFromTime(t)
    IN  IF dd \in DOMAIN builtinHolidays /\ dd \notin c.removed
        THEN builtinHolidays[dd]
        ELSE lookup(c, dd).name

HolidayName(c, t) == lookup(c, dateFromTime(t)).name

\* The first loop without the test for a custom entry on the same date.
builtinInRangeKeepCustom(c, from, to, all, rev) ==
    LET keys == rangeBuiltin(rev)
        kept == SelectSeq(keys, LAMBDA hd :
                    /\ hd \notin c.removed
                    /\ (all \/ inRange(hd, from, to)))
    IN  [i \in 1..Len(kept) |->
            [Date |-> toTime(kept[i]), Name |-> builtinHolidays[kept[i]]]]

\* The first loop of holidaysInRange and Holidays: the built-in entries that
\* are neither removed nor overridden; all is TRUE for Holidays (no range).
builtinInRange(c, from, to, all, rev) ==
    LET keys == rangeBuiltin(rev)
        kept == SelectSeq(keys, LAMBDA hd :
                    /\ hd \notin c.removed
                    /\ hd \notin DOMAIN c.custom
                    /\ (all \/ inRange(hd, from, to)))
    IN  [i \in 1..Len(kept) |->
            [Date |-> toTime(kept[i]), Name |-> builtinHolidays[kept[i]]]]

\* The second loop: the custom entries.
customInRange(c, from, to, all, rev) ==
    LET keys == rangeOrder(DOMAIN c.custom, rev)
        kept == SelectSeq(keys, LAMBDA hd : all \/ inRange(hd, from, to))
    IN  [i \in 1..Len(kept) |->
            [Date |-> toTime(kept[i]), Name |-> c.custom[kept[i]]]]

holidaysInRange(c, from, to, rev) ==
    sortSlice(builtinInRange(c, from, to, FALSE, rev)
              \o customInRange(c, from, to, FALSE, rev))

Holidays(c, rev) ==
    LET z == mkDate(0, 0, 0)
    IN  sortSlice(builtinInRange(c, z, z, TRUE, rev)
                  \o customInRange(c, z, z, TRUE, rev))

January == 1
December == 12

HolidaysInYear(c, year, rev) ==
    holidaysInRange(c, mkDate(year, January, 1), mkDate(year, December, 31), rev)

\* HolidaysInMonth that takes every month for 30 days long.
HolidaysInMonthThirty(c, year, month, rev) ==
    holidaysInRange(c, mkDate(year, month, 1), mkDate(year, month, 30), rev)

HolidaysInMonth(c, year, month, rev) ==
    LET lastDay == TimeDate(Date(year, month + 1, 0, 0, 0, UTC)).day
    IN  holidaysInRange(c, mkDate(year, month, 1), mkDate(year, month, lastDay), rev)

\* HolidaysBetween that turns a reversed range round.
HolidaysBetweenSwap(c, from, to, rev) ==
    LET fromD == dateFromTime(from)
        toD   == dateFromTime(to)
    IN  IF before(toD, fromD) THEN holidaysInRange(c, toD, fromD, rev)
        ELSE holidaysInRange(c, fromD, toD, rev)

\* nil when from is after to.
HolidaysBetween(c, from, to, rev) ==
    LET fromD == dateFromTime(from)
        toD   == dateFromTime(to)
    IN  IF before(toD, fromD) THEN <<>>
        ELSE holidaysInRange(c, fromD, toD, rev)

\* AddCustomHoliday that keeps the entry a date already has.
AddCustomHolidayKeep(c, t, name) ==
    LET dd == dateFromTime(t)
    IN  [c EXCEPT !.custom =
            [hd \in DOMAIN c.custom \cup {dd} |->
                IF hd \in DOMAIN c.custom THEN c.custom[hd] ELSE name]]

\* AddCustomHoliday that also lifts the suppression of its date.
AddCustomHolidayRestores(c, t, name) ==
    LET dd == dateFromTime(t)
    IN  [custom  |-> [hd \in DOMAIN c.custom \cup {dd} |->
                        IF hd = dd THEN name ELSE c.custom[hd]],
         removed |-> c.removed \ {dd}]

AddCustomHoliday(c, t, name) ==
    LET dd == dateFromTime(t)
    IN  [c EXCEPT !.custom =
            [hd \in DOMAIN c.custom \cup {dd} |->
                IF hd = dd THEN name ELSE c.custom[hd]]]

\* RemoveCustomHoliday that clears the whole map.
RemoveCustomHolidayAll(c, t) == [c EXCEPT !.custom = <<>>]

RemoveCustomHoliday(c, t) ==
    LET dd == dateFromTime(t)
    IN  [c EXCEPT !.custom = [hd \in DOMAIN c.custom \ {dd} |-> c.custom[hd]]]

\* RemoveHoliday that writes nothing.
RemoveHolidayNothing(c, t) == c

\* RemoveHoliday that also drops the custom entry of the date.
RemoveHolidayAndCustom(c, t) ==
    LET dd == dateFromTime(t)
    IN  [custom  |-> [hd \in DOMAIN c.custom \ {dd} |-> c.custom[hd]],
         removed |-> c.removed \cup {dd}]

RemoveHoliday(c, t) ==
    [c EXCEPT !.removed = c.removed \cup {dateFromTime(t)}]

\* RestoreHoliday that writes nothing.
RestoreHolidayNothing(c, t) == c

RestoreHoliday(c, t) ==
    [c EXCEPT !.removed = c.removed \ {dateFromTime(t)}]

(***************************************************************************)
(* jpholiday_helpers.go: the business-day predicate and the searches.      *)
(***************************************************************************)
\* IsBusinessDay that takes Saturday for a working day.
IsBusinessDaySunday(c, t) ==
    LET wd == Weekday(In(t, jstZone))
    IN  IF wd = Sunday THEN FALSE
        ELSE ~IsHoliday(c, t)

\* IsBusinessDay that reads the weekday in the zone the instant carries.
IsBusinessDayOwnZone(c, t) ==
    LET wd == Weekday(t)
    IN  IF wd = Saturday \/ wd = Sunday THEN FALSE
        ELSE ~IsHoliday(c, t)

IsBusinessDay(c, t) ==
    LET wd == Weekday(In(t, jstZone))
    IN  IF wd = Saturday \/ wd = Sunday THEN FALSE
        ELSE ~IsHoliday(c, t)

\* var best date; var bestName string; found := false
noBest == [best |-> mkDate(0, 0, 0), bestName |-> "", found |-> FALSE]

\* The loop body of NextHoliday with "not before" in place of "after".
nextStepNonStrict(acc, hd, name, dd) ==
    IF ~before(hd, dd) /\ (~acc.found \/ before(hd, acc.best))
    THEN [best |-> hd, bestName |-> name, found |-> TRUE]
    ELSE acc

\* The body of the two loops of NextHoliday.
nextStep(acc, hd, name, dd) ==
    IF after(hd, dd) /\ (~acc.found \/ before(hd, acc.best))
    THEN [best |-> hd, bestName |-> name, found |-> TRUE]
    ELSE acc

\* The loop body of PreviousHoliday that keeps the earliest candidate.
previousStepEarliest(acc, hd, name, dd) ==
    IF before(hd, dd) /\ (~acc.found \/ before(hd, acc.best))
    THEN [best |-> hd, bestName |-> name, found |-> TRUE]
    ELSE acc

\* The body of the two loops of PreviousHoliday.
previousStep(acc, hd, name, dd) ==
    IF before(hd, dd) /\ (~acc.found \/ after(hd, acc.best))
    THEN [best |-> hd, bestName |-> name, found |-> TRUE]
    ELSE acc

\* One loop over the keys of a map, in the given order.
RECURSIVE scan(_, _, _, _, _)
scan(keys, names, dd, acc, forward) ==
    IF keys = <<>> THEN acc
    ELSE scan(Tail(keys), names, dd,
              IF forward
              THEN nextStep(acc, Head(keys), names[Head(keys)], dd)
              ELSE previousStep(acc, Head(keys), names[Head(keys)], dd),
              forward)

\* The built-in loop skips the removed entries, then the custom loop runs.
scanBoth(c, dd, forward, rev) ==
    LET kept == SelectSeq(rangeBuiltin(rev), LAMBDA hd : hd \notin c.removed)
        acc1 == scan(kept, builtinHolidays, dd, noBest, forward)
    IN  scan(rangeOrder(DOMAIN c.custom, rev), c.custom, dd, acc1, forward)

holidayResult(acc) ==
    IF ~acc.found THEN [h |-> ZeroHoliday, ok |-> FALSE]
    ELSE [h |-> [Date |-> toTime(acc.best), Name |-> acc.bestName], ok |-> TRUE]

NextHoliday(c, t, rev) == holidayResult(scanBoth(c, dateFromTime(t), TRUE, rev))

PreviousHoliday(c, t, rev) == holidayResult(scanBoth(c, dateFromTime(t), FALSE, rev))

\* The loop stepping before it tests: the start date is never returned.
RECURSIVE businessDayLoopSkipStart(_, _, _, _)
businessDayLoopSkipStart(c, cur, i, step) ==
    IF ~(i < 366) THEN ZeroTime
    ELSE IF IsBusinessDay(c, AddDate(cur, step)) THEN AddDate(cur, step)
    ELSE businessDayLoopSkipStart(c, AddDate(cur, step), i + 1, step)

\* for i := 0; i < 366; i++ { if c.IsBusinessDay(cur) { return cur }; cur = cur.AddDate(0, 0, step) }
RECURSIVE businessDayLoop(_, _, _, _)
businessDayLoop(c, cur, i, step) ==
    IF ~(i < 366) THEN ZeroTime
    ELSE IF IsBusinessDay(c, cur) THEN cur
    ELSE businessDayLoop(c, AddDate(cur, step), i + 1, step)

NextBusinessDay(c, t) == businessDayLoop(c, toTime(dateFromTime(t)), 0, 1)

\* The backward search stepping forward.
PreviousBusinessDayForward(c, t) == businessDayLoop(c, toTime(dateFromTime(t)), 0, 1)

PreviousBusinessDay(c, t) == businessDayLoop(c, toTime(dateFromTime(t)), 0, -1)

\* The count that leaves the last date of the range out.
RECURSIVE countLoopExclusive(_, _, _, _)
countLoopExclusive(c, cur, end, count) ==
    IF ~TimeBefore(cur, end) THEN count
    ELSE countLoopExclusive(c, AddDate(cur, 1), end,
                            IF IsBusinessDay(c, cur) THEN count + 1 ELSE count)

\* for !cur.After(end) { if c.IsBusinessDay(cur) { count++ }; cur = cur.AddDate(0, 0, 1) }
RECURSIVE countLoop(_, _, _, _)
countLoop(c, cur, end, count) ==
    IF TimeAfter(cur, end) THEN count
    ELSE countLoop(c, AddDate(cur, 1), end,
                   IF IsBusinessDay(c, cur) THEN count + 1 ELSE count)

\* The count that turns a reversed range round instead of giving 0.
BusinessDaysBetweenSwap(c, from, to) ==
    LET fromD == dateFromTime(from)
        toD   == dateFromTime(to)
    IN  IF before(toD, fromD) THEN countLoop(c, toTime(toD), toTime(fromD), 0)
        ELSE countLoop(c, toTime(fromD), toTime(toD), 0)

BusinessDaysBetween(c, from, to) ==
    LET fromD == dateFromTime(from)
        toD   == dateFromTime(to)
    IN  IF before(toD, fromD) THEN 0
        ELSE countLoop(c, toTime(fromD), toTime(toD), 0)

(***************************************************************************)
(* The inputs of the calls.                                                *)
(***************************************************************************)
MaxNames == 2

nameList == <<"A", "B", "C", "D">>

\* AddCustomHoliday accepts any string, the empty one included.
Names == {""} \cup { nameList[i] : i \in 1..MaxNames }

\* 2026-01-01 (Thu) is the first and 11-23 (Mon) the last entry of the
\* dataset; 04-28 is a Tuesday; 04-29 (Wed), 05-03 (Sun), 05-04 (Mon), 05-05
\* (Tue) and 05-06 (Wed) are built-in holidays; 05-02 is a Saturday.
tNewYear == Date(2026, 1, 1, 0, 0, UTC)         \* 01-01 09:00 JST
tTue28 == Date(2026, 4, 28, 0, 0, UTC)          \* 04-28 09:00 JST
tWed29 == Date(2026, 4, 28, 15, 0, UTC)         \* 04-29 00:00 JST
tWed29Late == Date(2026, 4, 29, 9, 59, -300)    \* 04-29 23:59 JST
tThu30 == Date(2026, 4, 29, 15, 0, UTC)         \* 04-30 00:00 JST
tSat02 == Date(2026, 5, 1, 15, 0, UTC)          \* 05-02 00:00 JST
tSun03 == Date(2026, 5, 3, 0, 0, jstZone)       \* 05-03 00:00 JST
tMon04 == Date(2026, 5, 3, 20, 0, -300)         \* 05-04 10:00 JST
tLabor == Date(2026, 11, 23, 0, 0, UTC)         \* 11-23 09:00 JST

QueryTimes == {tNewYear, tTue28, tWed29, tThu30, tSat02, tSun03, tLabor}

\* The overlay is edited on 04-29 and 04-30.
MutTimes == {tWed29, tWed29Late, tThu30}

\* The ends of the ranges.
RangeTimes == {tTue28, tThu30, tMon04}

Years == {2026, 2027}

Months == {4, 5}

(***************************************************************************)
(* c.mu, a sync.RWMutex, and the goroutines that call the methods.  w is   *)
(* the goroutine that has called Lock and not yet Unlock (it waits for the *)
(* readers to leave, then writes), readers are the goroutines holding a    *)
(* read lock, blocked the goroutines whose RLock came while w was taken:   *)
(* Unlock lets all of them in at once, before any later writer.            *)
(***************************************************************************)
MaxThreads == 2

Threads == 1..MaxThreads

muFree == [w |-> {}, readers |-> {}, blocked |-> {}]

\* c.mu.RLock(): in at once when no writer has called Lock, else queued.
RLock(m, th) ==
    IF m.w = {} THEN [m EXCEPT !.readers = @ \cup {th}]
    ELSE [m EXCEPT !.blocked = @ \cup {th}]

\* RLock returns to th once th is among the readers.
RLockReturns(m, th) == th \in m.readers

\* c.mu.RUnlock()
RUnlock(m, th) == [m EXCEPT !.readers = @ \ {th}]

\* c.mu.Lock() first excludes the other writers and keeps new readers out.
LockEnters(m, th) == m.w = {}

Lock(m, th) == [m EXCEPT !.w = {th}]

\* Lock returns to th once the readers that were in have left.
LockReturns(m, th) == m.w = {th} /\ m.readers = {}

\* c.mu.Unlock()
Unlock(m, th) == [w |-> {}, readers |-> m.blocked, blocked |-> {}]

\* A goroutine that is in no call.
idle == [pc |-> "idle"]

(***************************************************************************)
(* The Calendar values of the process.  A Calendar holds two Go maps, and  *)
(* a map is a reference: mem is the memory of the maps made so far, cals   *)
(* the Calendar structs made so far, each with the addresses of its two    *)
(* maps.  cals[defaultCal] is the package-level calendar the top-level     *)
(* functions use, made when the package is initialised.                    *)
(***************************************************************************)
MaxCalendars == 2

\* New that hands out the maps of the first Calendar again.
newCalendarShared(h) ==
    IF h.cals = <<>>
    THEN [mem  |-> <<New.custom, New.removed>>,
          cals |-> <<[custom |-> 1, removed |-> 2]>>]
    ELSE [mem |-> h.mem, cals |-> Append(h.cals, h.cals[1])]

\* &Calendar{custom: make(map[date]string), removed: make(map[date]bool)}
newCalendar(h) ==
    [mem  |-> h.mem \o <<New.custom, New.removed>>,
     cals |-> Append(h.cals, [custom |-> Len(h.mem) + 1, removed |-> Len(h.mem) + 2])]

\* var defaultCal = New()
defaultCal == 1

heapInit == newCalendar([mem |-> <<>>, cals |-> <<>>])

\* The maps a Calendar points to, as the overlay the methods work on.
deref(h, i) == [custom |-> h.mem[h.cals[i].custom], removed |-> h.mem[h.cals[i].removed]]

\* c.custom[d] = name and delete(c.custom, d) write the map c.custom points to.
storeCustom(h, i, c) == [h EXCEPT !.mem[h.cals[i].custom] = c.custom]

\* c.removed[d] = true and delete(c.removed, d) write the map c.removed points to.
storeRemoved(h, i, c) == [h EXCEPT !.mem[h.cals[i].removed] = c.removed]

(***************************************************************************)
(* The generator, cmd/genholidays.  gen is one run of main: pc is the call *)
(* main is about to make, urls the candidates fetchCSVWithFallbacks built, *)
(* idx the candidate being fetched, attempt the loop variable of           *)
(* fetchWithRetry, outcomes what client.Do gave in the attempts of the     *)
(* fetchWithRetry that began last, sent the URLs requested so far,         *)
(* results what fetchWithRetry returned for each candidate, and file the   *)
(* output file.  An error is <<>> for nil and a non-empty tuple otherwise. *)
(***************************************************************************)
minExpectedRows == 1000

maxRetries == 3

StatusOK == 200

StatusTooManyRequests == 429

StatusServiceUnavailable == 503

ckanAPIURL == "https://data.e-gov.go.jp/data/api/action/package_show?id=cao_20190522_0002"

fallbackURL1 == "https://www8.cao.go.jp/chosei/shukujitsu/syukujitsu.csv"

fallbackURL2 == "https://www8.cao.go.jp/chosei/shukujitsu/shukujitsu.csv"

allowedCSVHosts == {"www8.cao.go.jp", "www.cao.go.jp"}

nil == <<>>

\* The URLs a CKAN response names in this model.
RawURLs ==
    { "",
      fallbackURL1,
      fallbackURL2,
      "https://www.cao.go.jp/some/path.csv",
      "HTTPS://www8.cao.go.jp:8443/syukujitsu.csv",
      "http://www8.cao.go.jp/chosei/shukujitsu/syukujitsu.csv",
      "https://evil.example.com/data.csv",
      "https://www8.cao.go.jp@evil.example.com/data.csv",
      "www8.cao.go.jp/chosei/shukujitsu/syukujitsu.csv",
      "://invalid" }

\* url.Parse on the URLs of RawURLs: the scheme is lowered, Hostname() drops
\* the userinfo and the port, and a URL without a scheme before "://" is an error.
urlParse(rawURL) ==
    CASE rawURL = "" ->
            [err |-> FALSE, Scheme |-> "", Hostname |-> ""]
      [] rawURL \in {fallbackURL1, fallbackURL2} ->
            [err |-> FALSE, Scheme |-> "https", Hostname |-> "www8.cao.go.jp"]
      [] rawURL = "https://www.cao.go.jp/some/path.csv" ->
            [err |-> FALSE, Scheme |-> "https", Hostname |-> "www.cao.go.jp"]
      [] rawURL = "HTTPS://www8.cao.go.jp:8443/syukujitsu.csv" ->
            [err |-> FALSE, Scheme |-> "https", Hostname |-> "www8.cao.go.jp"]
      [] rawURL = "http://www8.cao.go.jp/chosei/shukujitsu/syukujitsu.csv" ->
            [err |-> FALSE, Scheme |-> "http", Hostname |-> "www8.cao.go.jp"]
      [] rawURL = "https://evil.example.com/data.csv" ->
            [err |-> FALSE, Scheme |-> "https", Hostname |-> "evil.example.com"]
      [] rawURL = "https://www8.cao.go.jp@evil.example.com/data.csv" ->
            [err |-> FALSE, Scheme |-> "https", Hostname |-> "evil.example.com"]
      [] rawURL = "www8.cao.go.jp/chosei/shukujitsu/syukujitsu.csv" ->
            [err |-> FALSE, Scheme |-> "", Hostname |-> ""]
      [] rawURL = ckanAPIURL ->
            [err |-> FALSE, Scheme |-> "https", Hostname |-> "data.e-gov.go.jp"]
      [] OTHER ->
            [err |-> TRUE, Scheme |-> "", Hostname |-> ""]

\* validateCSVURL that lets any https URL through.
validateCSVURLAnyHost(rawURL) ==
    LET parsed == urlParse(rawURL)
    IN  IF parsed.err THEN <<"invalid URL", rawURL>>
        ELSE IF parsed.Scheme # "https" THEN <<"only HTTPS is allowed", rawURL>>
        ELSE nil

\* validateCSVURL: nil for an https URL of an allowed host, an error otherwise.
validateCSVURL(rawURL) ==
    LET parsed == urlParse(rawURL)
    IN  IF parsed.err THEN <<"invalid URL", rawURL>>
        ELSE IF parsed.Scheme # "https" THEN <<"only HTTPS is allowed", rawURL>>
        ELSE IF parsed.Hostname \notin allowedCSVHosts
             THEN <<"host is not in the allowed list", rawURL>>
        ELSE nil

\* The formats a CKAN resource carries in this model.
Formats == {"CSV", "csv", "JSON", ""}

\* strings.EqualFold(r.Format, "CSV") on Formats.
EqualFoldCSV(format) == format \in {"CSV", "csv"}

\* The loop of resolveCSVURLFrom over ckan.Result.Resources, from the i-th on.
RECURSIVE firstCSV(_, _)
firstCSV(Resources, i) ==
    IF i > Len(Resources)
    THEN [url |-> "", err |-> <<"no CSV resource found in CKAN response">>]
    ELSE LET r == Resources[i]
         IN  IF EqualFoldCSV(r.Format) /\ r.URL # ""
             THEN IF validateCSVURL(r.URL) # nil
                  THEN [url |-> "",
                        err |-> <<"CKAN returned invalid URL", validateCSVURL(r.URL)>>]
                  ELSE [url |-> r.URL, err |-> nil]
             ELSE firstCSV(Resources, i + 1)

\* resolveCSVURLFrom, given what the CKAN endpoint answered: reply.err is the
\* error of client.Do, decodes whether the body is JSON of the expected shape.
resolveCSVURLFrom(reply) ==
    IF reply.err THEN [url |-> "", err |-> <<"CKAN API request failed">>]
    ELSE IF reply.StatusCode # StatusOK
         THEN [url |-> "", err |-> <<"CKAN API returned status", reply.StatusCode>>]
    ELSE IF ~reply.decodes
         THEN [url |-> "", err |-> <<"CKAN API response decode failed">>]
    ELSE IF ~reply.Success
         THEN [url |-> "", err |-> <<"CKAN API returned success=false">>]
    ELSE firstCSV(reply.Resources, 1)

\* The list fetchCSVWithFallbacks builds that tries the fallbacks before the CKAN URL.
candidateURLsFallbacksFirst(resolved, fb1, fb2) ==
    LET urls1 == IF resolved.err # nil \/ resolved.url # fb1 THEN <<fb1>> ELSE <<>>
        urls2 == IF resolved.err # nil \/ resolved.url # fb2
                 THEN Append(urls1, fb2) ELSE urls1
    IN  IF resolved.err # nil THEN urls2 ELSE Append(urls2, resolved.url)

\* The ordered list of URLs fetchCSVWithFallbacks builds: the resolved URL if
\* there is one, then each fallback that is not urls[0].
candidateURLs(resolved, fb1, fb2) ==
    LET urls0 == IF resolved.err # nil THEN <<>> ELSE <<resolved.url>>
        urls1 == IF Len(urls0) = 0 \/ urls0[1] # fb1 THEN Append(urls0, fb1) ELSE urls0
    IN  IF Len(urls1) = 0 \/ urls1[1] # fb2 THEN Append(urls1, fb2) ELSE urls1

\* What client.Do gives for one request: err, or a response with a status.
NetworkError == [err |-> TRUE, StatusCode |-> 0]

Statuses == {200, 404, 429, 500, 503}

Outcomes == {NetworkError} \cup {[err |-> FALSE, StatusCode |-> s] : s \in Statuses}

\* The body of one attempt that treats only 503 as retryable.
attemptResultOnly503(o) ==
    IF o.err THEN "continue"
    ELSE IF o.StatusCode = StatusServiceUnavailable THEN "continue"
    ELSE IF o.StatusCode # StatusOK THEN "error"
    ELSE "reader"

\* The body of one attempt of fetchWithRetry after client.Do: continue with
\* the next attempt, return an error, or return the reader.
attemptResult(o) ==
    IF o.err THEN "continue"
    ELSE IF \/ o.StatusCode = StatusTooManyRequests
            \/ o.StatusCode = StatusServiceUnavailable
            \/ o.StatusCode >= 500
         THEN "continue"
    ELSE IF o.StatusCode # StatusOK THEN "error"
    ELSE "reader"

\* The longest list of resources a CKAN response carries in this model.
MaxResources == 2

ResourceLists ==
    UNION {[1..n -> [URL : RawURLs, Format : Formats]] : n \in 0..MaxResources}

\* What the CKAN endpoint answers to the request of resolveCSVURLFrom.
CkanReplies ==
    {[err |-> TRUE, StatusCode |-> 0, decodes |-> FALSE, Success |-> FALSE,
      Resources |-> <<>>]}
    \cup {[err |-> FALSE, StatusCode |-> s, decodes |-> FALSE, Success |-> FALSE,
           Resources |-> <<>>] : s \in Statuses}
    \cup {[err |-> FALSE, StatusCode |-> StatusOK, decodes |-> TRUE, Success |-> FALSE,
           Resources |-> <<>>]}
    \cup {[err |-> FALSE, StatusCode |-> StatusOK, decodes |-> TRUE, Success |-> TRUE,
           Resources |-> rs] : rs \in ResourceLists}

\* The CSV a server sends, by what parseCSV meets in it: the header line, a
\* record it cannot take (too few columns, a date that does not parse, a read
\* error), and the number of records with a date and a name.
Bodies ==
    [header : {"ok", "eof", "short", "wrong"},
     bad : BOOLEAN,
     rows : {0, minExpectedRows - 1, minExpectedRows, minExpectedRows + 1}]

\* parseCSV: the number of holidays it returns, or an error.
parseCSV(body) ==
    IF body.header = "eof" THEN [holidays |-> 0, err |-> <<"reading header">>]
    ELSE IF body.header = "short"
         THEN [holidays |-> 0, err |-> <<"unexpected header columns">>]
    ELSE IF body.header = "wrong" THEN [holidays |-> 0, err |-> <<"unexpected header">>]
    ELSE IF body.bad THEN [holidays |-> 0, err |-> <<"line">>]
    ELSE [holidays |-> body.rows, err |-> nil]

\* What os.WriteFile does to the file: it writes it, fails before it opens
\* it, or fails after it truncated it.
WriteOutcomes == {"written", "unopened", "truncated"}

genInit ==
    [pc |-> "fetchCSV", resolved |-> "", urls |-> <<>>, idx |-> 0, attempt |-> 0,
     outcomes |-> <<>>, lastErr |-> nil, sent |-> <<>>, results |-> <<>>,
     holidays |-> 0, steps |-> <<>>, file |-> "old", fatal |-> nil]

\* log.Fatalf: the run ends with the message.
Fatalf(g, msg) == [g EXCEPT !.pc = "exit 1", !.fatal = msg]

\* fetchWithRetry returns (reader, err) to the loop of fetchCSVWithFallbacks,
\* which returns the reader, goes on to the next URL, or returns its error to
\* main when there is none left.
fetchReturns(g, reader, err) ==
    LET url == g.urls[g.idx]
        r == [url |-> url, requests |-> g.attempt + 1, reader |-> reader, err |-> err]
        g1 == [g EXCEPT !.results = Append(@, r), !.attempt = 0, !.lastErr = nil]
    IN  IF err # nil
        THEN IF g.idx < Len(g.urls)
             THEN [g1 EXCEPT !.idx = @ + 1]
             ELSE Fatalf(g1, <<"failed to fetch CSV", <<"all URLs failed", err>>>>)
        ELSE [g1 EXCEPT !.pc = "parseCSV", !.steps = Append(@, "fetchCSV")]

\* fetchCSVWithFallbacks up to its loop: the request to the CKAN endpoint
\* and the list of URLs.
GenResolve ==
    /\ gen.pc = "fetchCSV"
    /\ \E reply \in CkanReplies :
        LET resolved == resolveCSVURLFrom(reply)
        IN  gen' = [gen EXCEPT !.pc = "fetchWithRetry",
                               !.sent = Append(@, ckanAPIURL),
                               !.resolved = resolved.url,
                               !.urls = candidateURLs(resolved, fallbackURL1, fallbackURL2),
                               !.idx = 1]
    /\ UNCHANGED <<cal, call, mu, thr, heap>>

\* An attempt of a fetchWithRetry whose loop runs once more than maxRetries.
GenAttemptOnceMore ==
    /\ gen.pc = "fetchWithRetry"
    /\ \E o \in Outcomes :
           LET url == gen.urls[gen.idx]
               g == [gen EXCEPT !.sent = Append(@, url),
                                !.outcomes = IF gen.attempt = 0 THEN <<o>>
                                             ELSE Append(@, o)]
               failed == [g EXCEPT !.lastErr = <<url, o>>]
           IN  gen' = CASE attemptResult(o) = "reader" -> fetchReturns(g, TRUE, nil)
                        [] attemptResult(o) = "error" -> fetchReturns(g, FALSE, <<url, o>>)
                        [] OTHER ->
                             IF gen.attempt < maxRetries
                             THEN [failed EXCEPT !.attempt = @ + 1]
                             ELSE fetchReturns(failed, FALSE, failed.lastErr)
    /\ UNCHANGED <<cal, call, mu, thr, heap>>

\* One attempt of fetchWithRetry on urls[idx]: the request and what the loop
\* does with its outcome.
GenAttempt ==
    /\ gen.pc = "fetchWithRetry"
    /\ \E o \in Outcomes :
           LET url == gen.urls[gen.idx]
               g == [gen EXCEPT !.sent = Append(@, url),
                                !.outcomes = IF gen.attempt = 0 THEN <<o>>
                                             ELSE Append(@, o)]
               failed == [g EXCEPT !.lastErr = <<url, o>>]
           IN  gen' = CASE attemptResult(o) = "reader" -> fetchReturns(g, TRUE, nil)
                        [] attemptResult(o) = "error" -> fetchReturns(g, FALSE, <<url, o>>)
                        [] OTHER ->
                             IF gen.attempt + 1 < maxRetries
                             THEN [failed EXCEPT !.attempt = @ + 1]
                             ELSE fetchReturns(failed, FALSE, failed.lastErr)
    /\ UNCHANGED <<cal, call, mu, thr, heap>>

\* main calls parseCSV on the reader.
GenParse ==
    /\ gen.pc = "parseCSV"
    /\ \E body \in Bodies :
        LET parsed == parseCSV(body)
        IN  gen' = IF parsed.err # nil
                   THEN Fatalf(gen, <<"failed to parse CSV", parsed.err>>)
                   ELSE [gen EXCEPT !.pc = "minExpectedRows",
                                    !.holidays = parsed.holidays,
                                    !.steps = Append(@, "parseCSV")]
    /\ UNCHANGED <<cal, call, mu, thr, heap>>

\* A main that goes on to generate whatever len(holidays) is.
GenValidateSkipped ==
    /\ gen.pc = "minExpectedRows"
    /\ gen' = [gen EXCEPT !.pc = "generate", !.steps = Append(@, "minExpectedRows")]
    /\ UNCHANGED <<cal, call, mu, thr, heap>>

\* main compares len(holidays) with minExpectedRows.
GenValidate ==
    /\ gen.pc = "minExpectedRows"
    /\ gen' = IF gen.holidays < minExpectedRows
              THEN Fatalf(gen, <<"validation failed", gen.holidays>>)
              ELSE [gen EXCEPT !.pc = "generate", !.steps = Append(@, "minExpectedRows")]
    /\ UNCHANGED <<cal, call, mu, thr, heap>>

\* main calls generate, whose error is the one of format.Source.
GenGenerate ==
    /\ gen.pc = "generate"
    /\ \E formats \in BOOLEAN :
        gen' = IF ~formats
               THEN Fatalf(gen, <<"failed to generate source">>)
               ELSE [gen EXCEPT !.pc = "WriteFile", !.steps = Append(@, "generate")]
    /\ UNCHANGED <<cal, call, mu, thr, heap>>

\* main calls os.WriteFile on the output path.
GenWriteFile ==
    /\ gen.pc = "WriteFile"
    /\ \E w \in WriteOutcomes :
        gen' = CASE w = "written" ->
                      [gen EXCEPT !.pc = "exit 0", !.file = "new",
                                  !.steps = Append(@, "WriteFile")]
                 [] w = "unopened" -> Fatalf(gen, <<"failed to write output">>)
                 [] OTHER -> Fatalf([gen EXCEPT !.file = "truncated"],
                                    <<"failed to write output">>)
    /\ UNCHANGED <<cal, call, mu, thr, heap>>

NextGen ==
    \/ GenResolve
    \/ GenAttempt
    \/ GenParse
    \/ GenValidate
    \/ GenGenerate
    \/ GenWriteFile

(***************************************************************************)
(* The calls.  call records the last call: its name, its arguments and     *)
(* what it returned; a mutator also records in old what lookup gave for    *)
(* its date just before it.                                                *)
(***************************************************************************)
Init ==
    /\ cal = New
    /\ call = [op |-> "New"]
    /\ mu = muFree
    /\ thr = [th \in Threads |-> idle]
    /\ heap = heapInit
    /\ gen = genInit

\* IsHoliday that keeps the answer for a holiday in custom.
DoIsHolidayCaching ==
    \E t \in QueryTimes :
        /\ call' = [op |-> "IsHoliday", t |-> t, ret |-> IsHoliday(cal, t)]
        /\ cal' = IF IsHoliday(cal, t)
                  THEN AddCustomHoliday(cal, t, HolidayName(cal, t))
                  ELSE cal
        /\ UNCHANGED <<mu, thr, heap, gen>>

DoIsHoliday ==
    \E t \in QueryTimes :
        /\ call' = [op |-> "IsHoliday", t |-> t, ret |-> IsHoliday(cal, t)]
        /\ UNCHANGED <<cal, mu, thr, heap, gen>>

DoHolidayName ==
    \E t \in QueryTimes :
        /\ call' = [op |-> "HolidayName", t |-> t, ret |-> HolidayName(cal, t)]
        /\ UNCHANGED <<cal, mu, thr, heap, gen>>

DoHolidaysInYear ==
    \E year \in Years, rev \in BOOLEAN :
        /\ call' = [op |-> "HolidaysInYear", year |-> year,
                    ret |-> HolidaysInYear(cal, year, rev)]
        /\ UNCHANGED <<cal, mu, thr, heap, gen>>

DoHolidaysInMonth ==
    \E year \in Years, month \in Months, rev \in BOOLEAN :
        /\ call' = [op |-> "HolidaysInMonth", year |-> year, month |-> month,
                    ret |-> HolidaysInMonth(cal, year, month, rev)]
        /\ UNCHANGED <<cal, mu, thr, heap, gen>>

DoHolidaysBetween ==
    \E from \in RangeTimes, to \in RangeTimes, rev \in BOOLEAN :
        /\ call' = [op |-> "HolidaysBetween", from |-> from, to |-> to,
                    ret |-> HolidaysBetween(cal, from, to, rev)]
        /\ UNCHANGED <<cal, mu, thr, heap, gen>>

DoHolidays ==
    \E rev \in BOOLEAN :
        /\ call' = [op |-> "Holidays", ret |-> Holidays(cal, rev)]
        /\ UNCHANGED <<cal, mu, thr, heap, gen>>

DoAddCustomHoliday ==
    \E t \in MutTimes, name \in Names :
        /\ cal' = AddCustomHoliday(cal, t, name)
        /\ call' = [op |-> "AddCustomHoliday", t |-> t, name |-> name,
                    old |-> lookup(cal, dateFromTime(t))]
        /\ UNCHANGED <<mu, thr, heap, gen>>

DoRemoveCustomHoliday ==
    \E t \in MutTimes :
        /\ cal' = RemoveCustomHoliday(cal, t)
        /\ call' = [op |-> "RemoveCustomHoliday", t |-> t,
                    old |-> lookup(cal, dateFromTime(t))]
        /\ UNCHANGED <<mu, thr, heap, gen>>

DoRemoveHoliday ==
    \E t \in MutTimes :
        /\ cal' = RemoveHoliday(cal, t)
        /\ call' = [op |-> "RemoveHoliday", t |-> t,
                    old |-> lookup(cal, dateFromTime(t))]
        /\ UNCHANGED <<mu, thr, heap, gen>>

DoRestoreHoliday ==
    \E t \in MutTimes :
        /\ cal' = RestoreHoliday(cal, t)
        /\ call' = [op |-> "RestoreHoliday", t |-> t,
                    old |-> lookup(cal, dateFromTime(t))]
        /\ UNCHANGED <<mu, thr, heap, gen>>

DoIsBusinessDay ==
    \E t \in QueryTimes :
        /\ call' = [op |-> "IsBusinessDay", t |-> t, ret |-> IsBusinessDay(cal, t)]
        /\ UNCHANGED <<cal, mu, thr, heap, gen>>

DoNextHoliday ==
    \E t \in QueryTimes, rev \in BOOLEAN :
        /\ call' = [op |-> "NextHoliday", t |-> t, ret |-> NextHoliday(cal, t, rev)]
        /\ UNCHANGED <<cal, mu, thr, heap, gen>>

DoPreviousHoliday ==
    \E t \in QueryTimes, rev \in BOOLEAN :
        /\ call' = [op |-> "PreviousHoliday", t |-> t,
                    ret |-> PreviousHoliday(cal, t, rev)]
        /\ UNCHANGED <<cal, mu, thr, heap, gen>>

DoNextBusinessDay ==
    \E t \in QueryTimes :
        /\ call' = [op |-> "NextBusinessDay", t |-> t,
                    ret |-> NextBusinessDay(cal, t)]
        /\ UNCHANGED <<cal, mu, thr, heap, gen>>

DoPreviousBusinessDay ==
    \E t \in QueryTimes :
        /\ call' = [op |-> "PreviousBusinessDay", t |-> t,
                    ret |-> PreviousBusinessDay(cal, t)]
        /\ UNCHANGED <<cal, mu, thr, heap, gen>>

DoBusinessDaysBetween ==
    \E from \in RangeTimes, to \in RangeTimes :
        /\ call' = [op |-> "BusinessDaysBetween", from |-> from, to |-> to,
                    ret |-> BusinessDaysBetween(cal, from, to)]
        /\ UNCHANGED <<cal, mu, thr, heap, gen>>

Next ==
    \/ DoIsHoliday
    \/ DoHolidayName
    \/ DoHolidaysInYear
    \/ DoHolidaysInMonth
    \/ DoHolidaysBetween
    \/ DoHolidays
    \/ DoAddCustomHoliday
    \/ DoRemoveCustomHoliday
    \/ DoRemoveHoliday
    \/ DoRestoreHoliday
    \/ DoIsBusinessDay
    \/ DoNextHoliday
    \/ DoPreviousHoliday
    \/ DoNextBusinessDay
    \/ DoPreviousBusinessDay
    \/ DoBusinessDaysBetween

Spec == Init /\ [][Next]_vars

(***************************************************************************)
(* What the specification says, stated without the operators above.        *)
(***************************************************************************)
\* Section 4.2: a date is a holiday iff it is in custom, or it is not in
\* removed and is in the Dataset.
SpecIsHoliday(c, dd) ==
    dd \in DOMAIN c.custom \/ (dd \notin c.removed /\ dd \in DOMAIN builtinHolidays)

\* Section 4.2: the name, by the four rules in their order.
SpecHolidayName(c, dd) ==
    IF dd \in DOMAIN c.custom THEN c.custom[dd]
    ELSE IF dd \in c.removed THEN ""
    ELSE IF dd \in DOMAIN builtinHolidays THEN builtinHolidays[dd]
    ELSE ""

\* The lexicographic order of (year, month, day) as one number.
dateKey(dd) == dd.year * 10000 + dd.month * 100 + dd.day

\* The day of the week of a civil date (0 is Sunday), by the tabular method
\* that does not count days from an epoch.
monthShift == <<0, 3, 2, 5, 0, 3, 5, 1, 4, 6, 2, 4>>

SpecWeekday(dd) ==
    LET y == IF dd.month < 3 THEN dd.year - 1 ELSE dd.year
    IN  (y + (y \div 4) - (y \div 100) + (y \div 400) + monthShift[dd.month] + dd.day) % 7

\* Section 4.5: neither Saturday nor Sunday, and not a holiday.
SpecIsBusinessDay(c, dd) ==
    /\ SpecWeekday(dd) \notin {0, 6}
    /\ ~SpecIsHoliday(c, dd)

(***************************************************************************)
(* The claims.                                                             *)
(***************************************************************************)
\* C1: in every reachable Calendar state and for every date, IsHoliday is
\* true iff the date is in custom, or is not in removed and is in the Dataset.
C1_IsHolidayIff ==
    call.op = "IsHoliday" =>
        call.ret = SpecIsHoliday(cal, dateFromTime(call.t))

\* IsHoliday answered true for a built-in date that is in custom and in removed.
C1_Witness ==
    /\ call.op = "IsHoliday"
    /\ call.ret = TRUE
    /\ dateFromTime(call.t) \in DOMAIN cal.custom
    /\ dateFromTime(call.t) \in cal.removed
    /\ dateFromTime(call.t) \in DOMAIN builtinHolidays

\* C2: HolidayName resolves in a fixed order: the custom name when the date
\* is in custom (even if it is removed and built-in), else "" when the date is
\* removed, else the built-in name when it is in the Dataset, else "".
C2_HolidayNameOrder ==
    call.op = "HolidayName" =>
        call.ret = SpecHolidayName(cal, dateFromTime(call.t))

\* HolidayName gave the custom name of a date that is also removed and built-in.
C2_Witness ==
    /\ call.op = "HolidayName"
    /\ dateFromTime(call.t) \in DOMAIN cal.custom
    /\ dateFromTime(call.t) \in cal.removed
    /\ dateFromTime(call.t) \in DOMAIN builtinHolidays
    /\ call.ret = cal.custom[dateFromTime(call.t)]
    /\ call.ret # builtinHolidays[dateFromTime(call.t)]

\* C3: right after AddCustomHoliday(t, n), HolidayName(t) yields n, and after
\* a following AddCustomHoliday(t, n2) it yields n2, whatever n2 is.
C3_AddThenName ==
    call.op = "AddCustomHoliday" =>
        /\ HolidayName(cal, call.t) = call.name
        /\ \A n2 \in Names :
              HolidayName(AddCustomHoliday(cal, call.t, n2), call.t) = n2

\* AddCustomHoliday has overwritten another custom name of its date.
C3_Witness ==
    /\ call.op = "AddCustomHoliday"
    /\ call.old.ok
    /\ call.old.name \in Names \ {"", call.name}
    /\ cal.custom[dateFromTime(call.t)] = call.name

\* C4: IsBusinessDay(t) is true iff the weekday of t's date in UTC+9 is
\* neither Saturday nor Sunday and the date is not a holiday under the
\* current overlay; right after AddCustomHoliday the date is no business day.
C4_IsBusinessDayIff ==
    /\ call.op = "IsBusinessDay" =>
          call.ret = SpecIsBusinessDay(cal, dateFromTime(call.t))
    /\ call.op = "AddCustomHoliday" => ~IsBusinessDay(cal, call.t)

\* IsBusinessDay answered false for a weekday that is a holiday by custom alone.
C4_Witness ==
    /\ call.op = "IsBusinessDay"
    /\ call.ret = FALSE
    /\ SpecWeekday(dateFromTime(call.t)) \notin {0, 6}
    /\ dateFromTime(call.t) \in DOMAIN cal.custom
    /\ dateFromTime(call.t) \notin DOMAIN builtinHolidays

\* The dates a returned Holiday can be for: every holiday is a key of the
\* Dataset or of custom; the dates of the inputs are added.
Universe ==
    DOMAIN builtinHolidays \cup DOMAIN cal.custom
        \cup { dateFromTime(t) : t \in QueryTimes \cup RangeTimes \cup MutTimes }

ListOps == {"HolidaysInYear", "HolidaysInMonth", "HolidaysBetween", "Holidays"}

\* C5: for from <= to, HolidaysBetween(from, to) contains a Holiday for date d
\* iff d lies in [from, to] and is a holiday, and that Holiday has the name
\* HolidayName gives for d (a custom date is listed even when it is removed).
C5_BetweenIsRangeOfLookup ==
    (call.op = "HolidaysBetween"
        /\ dateKey(dateFromTime(call.from)) <= dateKey(dateFromTime(call.to))) =>
    /\ \A i \in 1..Len(call.ret) : \E dd \in Universe : call.ret[i].Date = toTime(dd)
    /\ \A dd \in Universe :
          LET hits == { i \in 1..Len(call.ret) : call.ret[i].Date = toTime(dd) }
          IN  /\ (hits # {}) =
                    (/\ dateKey(dateFromTime(call.from)) <= dateKey(dd)
                     /\ dateKey(dd) <= dateKey(dateFromTime(call.to))
                     /\ SpecIsHoliday(cal, dd))
              /\ \A i \in hits : call.ret[i].Name = SpecHolidayName(cal, dd)

\* HolidaysBetween listed, among three or more, a built-in date that is removed
\* and custom, under its custom name.
C5_Witness ==
    /\ call.op = "HolidaysBetween"
    /\ Len(call.ret) >= 3
    /\ \E i \in 1..Len(call.ret) :
          \E dd \in DOMAIN cal.custom \cap cal.removed \cap DOMAIN builtinHolidays :
             /\ call.ret[i].Date = toTime(dd)
             /\ call.ret[i].Name = cal.custom[dd]

\* C6: every list returned by HolidaysInYear, HolidaysInMonth, HolidaysBetween
\* and Holidays is strictly ascending by date, so no date appears twice.
C6_ListsStrictlyAscending ==
    call.op \in ListOps =>
        \A i \in 1..(Len(call.ret) - 1) :
            call.ret[i].Date.abs < call.ret[i + 1].Date.abs

\* A year's list holds a date that is built-in (not removed) and custom, and a
\* date that is custom alone.
C6_Witness ==
    /\ call.op = "HolidaysInYear"
    /\ \E i, j \in 1..Len(call.ret) :
          /\ dateFromTime(call.ret[i].Date)
                \in (DOMAIN cal.custom \cap DOMAIN builtinHolidays) \ cal.removed
          /\ dateFromTime(call.ret[j].Date)
                \in DOMAIN cal.custom \ DOMAIN builtinHolidays

\* C7: NextHoliday(t) is found exactly when some date strictly after t's date
\* is a holiday, and then its date is the smallest such date; it is never t's
\* own date.
C7_NextHolidayIsLeastAfter ==
    call.op = "NextHoliday" =>
        LET dd == dateFromTime(call.t)
            later == { e \in Universe :
                          SpecIsHoliday(cal, e) /\ dateKey(e) > dateKey(dd) }
        IN  /\ call.ret.ok = (later # {})
            /\ call.ret.ok =>
                  /\ \E e \in later :
                        /\ call.ret.h.Date = toTime(e)
                        /\ \A e2 \in later : dateKey(e) <= dateKey(e2)
                  /\ call.ret.h.Date # toTime(dd)

\* NextHoliday, asked from a holiday, found a later date that is custom alone.
C7_Witness ==
    /\ call.op = "NextHoliday"
    /\ SpecIsHoliday(cal, dateFromTime(call.t))
    /\ call.ret.ok
    /\ dateFromTime(call.ret.h.Date) \in DOMAIN cal.custom \ DOMAIN builtinHolidays

\* C8: PreviousHoliday(t) is found exactly when some date strictly before t's
\* date is a holiday, and then its date is the largest such date; it is never
\* t's own date.
C8_PreviousHolidayIsGreatestBefore ==
    call.op = "PreviousHoliday" =>
        LET dd == dateFromTime(call.t)
            earlier == { e \in Universe :
                            SpecIsHoliday(cal, e) /\ dateKey(e) < dateKey(dd) }
        IN  /\ call.ret.ok = (earlier # {})
            /\ call.ret.ok =>
                  /\ \E e \in earlier :
                        /\ call.ret.h.Date = toTime(e)
                        /\ \A e2 \in earlier : dateKey(e2) <= dateKey(e)
                  /\ call.ret.h.Date # toTime(dd)

\* PreviousHoliday, asked from a date after a removed built-in holiday, found
\* the holiday before the removed one.
C8_Witness ==
    /\ call.op = "PreviousHoliday"
    /\ call.ret.ok
    /\ \E e \in cal.removed \cap DOMAIN builtinHolidays :
          /\ e \notin DOMAIN cal.custom
          /\ dateKey(e) < dateKey(dateFromTime(call.t))
          /\ dateKey(dateFromTime(call.ret.h.Date)) < dateKey(e)

\* C9: the Holiday returned by NextHoliday or PreviousHoliday has the name
\* HolidayName gives for the returned date (the custom name when the date is
\* both a built-in holiday that is not removed and a custom holiday).
C9_FoundNameIsHolidayName ==
    (call.op \in {"NextHoliday", "PreviousHoliday"} /\ call.ret.ok) =>
        call.ret.h.Name = HolidayName(cal, call.ret.h.Date)

\* C10: NextBusinessDay(t) returns, as midnight UTC, the earliest date e with
\* d <= e <= d + 365 days that is a business day, d being t's date; so it
\* returns d itself when d is a business day.
C10_NextBusinessDayIsEarliest ==
    call.op = "NextBusinessDay" =>
        LET dd == dateFromTime(call.t)
            d0 == toTime(dd).abs \div MinutesPerDay
            dayDate(n) == TimeDate([abs |-> n * MinutesPerDay, off |-> UTC])
            k  == (call.ret.abs \div MinutesPerDay) - d0
        IN  /\ (\E j \in 0..365 : SpecIsBusinessDay(cal, dayDate(d0 + j))) =>
                  /\ call.ret.off = UTC
                  /\ call.ret.abs % MinutesPerDay = 0
                  /\ k \in 0..365
                  /\ SpecIsBusinessDay(cal, dayDate(d0 + k))
                  /\ \A j \in 0..(k - 1) : ~SpecIsBusinessDay(cal, dayDate(d0 + j))
                  /\ dateFromTime(call.ret) = dayDate(d0 + k)
            /\ SpecIsBusinessDay(cal, dd) => call.ret = toTime(dd)

\* NextBusinessDay went two days on, over a day that is a holiday by custom.
C10_Witness ==
    /\ call.op = "NextBusinessDay"
    /\ call.ret.abs = toTime(dateFromTime(call.t)).abs + 2 * MinutesPerDay
    /\ dateFromTime(AddDate(toTime(dateFromTime(call.t)), 1)) \in DOMAIN cal.custom

\* C11: PreviousBusinessDay(t) returns, as midnight UTC, the latest date e with
\* d - 365 days <= e <= d that is a business day, d being t's date; so it
\* returns d itself when d is a business day.
C11_PreviousBusinessDayIsLatest ==
    call.op = "PreviousBusinessDay" =>
        LET dd == dateFromTime(call.t)
            d0 == toTime(dd).abs \div MinutesPerDay
            dayDate(n) == TimeDate([abs |-> n * MinutesPerDay, off |-> UTC])
            k  == d0 - (call.ret.abs \div MinutesPerDay)
        IN  /\ (\E j \in 0..365 : SpecIsBusinessDay(cal, dayDate(d0 - j))) =>
                  /\ call.ret.off = UTC
                  /\ call.ret.abs % MinutesPerDay = 0
                  /\ k \in 0..365
                  /\ SpecIsBusinessDay(cal, dayDate(d0 - k))
                  /\ \A j \in 0..(k - 1) : ~SpecIsBusinessDay(cal, dayDate(d0 - j))
                  /\ dateFromTime(call.ret) = dayDate(d0 - k)
            /\ SpecIsBusinessDay(cal, dd) => call.ret = toTime(dd)

\* PreviousBusinessDay, asked on a date that is a holiday by custom, went back
\* over it and over the built-in holiday of the day before.
C11_Witness ==
    /\ call.op = "PreviousBusinessDay"
    /\ dateFromTime(call.t) \in DOMAIN cal.custom
    /\ dateFromTime(AddDate(toTime(dateFromTime(call.t)), -1)) \in
           DOMAIN builtinHolidays \ cal.removed
    /\ call.ret.abs = toTime(dateFromTime(call.t)).abs - 2 * MinutesPerDay

\* C13: when from's date is not after to's, BusinessDaysBetween(from, to) is
\* the number of dates of [from, to], both ends included, that are business
\* days under the overlay.
C13_CountsBusinessDays ==
    (call.op = "BusinessDaysBetween"
        /\ dateKey(dateFromTime(call.from)) <= dateKey(dateFromTime(call.to))) =>
        LET d0 == toTime(dateFromTime(call.from)).abs \div MinutesPerDay
            d1 == toTime(dateFromTime(call.to)).abs \div MinutesPerDay
            dayDate(n) == TimeDate([abs |-> n * MinutesPerDay, off |-> UTC])
        IN  call.ret = Cardinality({ n \in d0..d1 : SpecIsBusinessDay(cal, dayDate(n)) })

\* A count over 04-28..04-30 in which 04-29, a built-in holiday that was
\* removed, is counted, and 04-30, a holiday by custom, is not.
C13_Witness ==
    /\ call.op = "BusinessDaysBetween"
    /\ call.from = tTue28
    /\ call.to = tThu30
    /\ mkDate(2026, 4, 29) \in cal.removed \ DOMAIN cal.custom
    /\ mkDate(2026, 4, 30) \in DOMAIN cal.custom
    /\ call.ret = 2

\* C14: BusinessDaysBetween(from, to) is 0 when to's date is before from's,
\* and for from and to on one date it is 1 when that date is a business day
\* and 0 when it is not.
C14_ReversedAndSameDay ==
    call.op = "BusinessDaysBetween" =>
        LET fromD == dateFromTime(call.from)
            toD   == dateFromTime(call.to)
        IN  /\ dateKey(toD) < dateKey(fromD) => call.ret = 0
            /\ fromD = toD =>
                  call.ret = (IF SpecIsBusinessDay(cal, fromD) THEN 1 ELSE 0)

\* A reversed range that has business days in it gave 0.
C14_Witness ==
    /\ call.op = "BusinessDaysBetween"
    /\ call.from = tThu30
    /\ call.to = tTue28
    /\ SpecIsBusinessDay(cal, mkDate(2026, 4, 28))
    /\ call.ret = 0

\* Pairs of instants of one UTC+9 date that differ in time of day and in the
\* offset they carry: 04-29 00:00 and 23:59, 04-30 00:00 and 23:59, and
\* Saturday 05-02 at 00:00 (Friday 15:00 in UTC) and at noon.
tThu30Late == Date(2026, 4, 30, 14, 59, UTC)    \* 04-30 23:59 JST
tSat02Noon == Date(2026, 5, 2, 12, 0, jstZone)  \* 05-02 12:00 JST

SameDatePairs ==
    { <<tWed29, tWed29Late>>, <<tThu30, tThu30Late>>, <<tSat02, tSat02Noon>> }

\* C15: two instants of the same UTC+9 calendar date are interchangeable as
\* the argument of every operation: the lookups, the business-day predicate,
\* the searches and the range ends return the same value, and each mutator
\* leaves the same overlay.
C15_SameDateSameBehaviour ==
    \A p \in SameDatePairs :
        LET t1 == p[1]
            t2 == p[2]
        IN  /\ IsHoliday(cal, t1) = IsHoliday(cal, t2)
            /\ HolidayName(cal, t1) = HolidayName(cal, t2)
            /\ IsBusinessDay(cal, t1) = IsBusinessDay(cal, t2)
            /\ NextBusinessDay(cal, t1) = NextBusinessDay(cal, t2)
            /\ PreviousBusinessDay(cal, t1) = PreviousBusinessDay(cal, t2)
            /\ \A rev \in BOOLEAN :
                  /\ NextHoliday(cal, t1, rev) = NextHoliday(cal, t2, rev)
                  /\ PreviousHoliday(cal, t1, rev) = PreviousHoliday(cal, t2, rev)
            /\ \A o \in RangeTimes :
                  /\ BusinessDaysBetween(cal, t1, o) = BusinessDaysBetween(cal, t2, o)
                  /\ BusinessDaysBetween(cal, o, t1) = BusinessDaysBetween(cal, o, t2)
                  /\ \A rev \in BOOLEAN :
                        /\ HolidaysBetween(cal, t1, o, rev) = HolidaysBetween(cal, t2, o, rev)
                        /\ HolidaysBetween(cal, o, t1, rev) = HolidaysBetween(cal, o, t2, rev)
            /\ \A name \in Names :
                  AddCustomHoliday(cal, t1, name) = AddCustomHoliday(cal, t2, name)
            /\ RemoveCustomHoliday(cal, t1) = RemoveCustomHoliday(cal, t2)
            /\ RemoveHoliday(cal, t1) = RemoveHoliday(cal, t2)
            /\ RestoreHoliday(cal, t1) = RestoreHoliday(cal, t2)

\* A custom holiday added at 23:59 UTC+9 in an offset behind UTC is found at
\* 00:00 of the same date given in UTC, with its name.
C15_Witness ==
    /\ call.op = "AddCustomHoliday"
    /\ call.t = tWed29Late
    /\ call.name # ""
    /\ tWed29.abs # tWed29Late.abs
    /\ tWed29.off # tWed29Late.off
    /\ HolidayName(cal, tWed29) = call.name

(***************************************************************************)
(* Normalisation on its own: dateFromTime and IsBusinessDay applied to     *)
(* instants given as a UTC wall clock (a civil date and a minute of the    *)
(* day) carried in an offset, on the calendar New returns.                 *)
(***************************************************************************)
\* Month ends, a leap day, a year end and the days round Saturday 05-02.
NormDays ==
    { mkDate(2024, 2, 28), mkDate(2024, 2, 29), mkDate(2025, 2, 28),
      mkDate(2026, 4, 28), mkDate(2026, 4, 30), mkDate(2026, 5, 1),
      mkDate(2026, 5, 2), mkDate(2026, 5, 3), mkDate(2026, 12, 31) }

\* 00:00, 14:59, 15:00 and 23:59 UTC.
NormMinutes == { 0, 14 * 60 + 59, 15 * 60, 23 * 60 + 59 }

\* Offsets behind and ahead of UTC+9, in minutes.
NormOffsets == { -12 * 60, -5 * 60, UTC, jstZone, 14 * 60 }

\* The instant of UTC wall clock (day, minute), carried in offset off.
normInstant(day, minute, off) ==
    In(Date(day.year, day.month, day.day, minute \div 60, minute % 60, UTC), off)

DoDateFromTime ==
    \E day \in NormDays, minute \in NormMinutes, off \in NormOffsets :
        /\ call' = [op |-> "dateFromTime", day |-> day, minute |-> minute,
                    t |-> normInstant(day, minute, off),
                    ret |-> dateFromTime(normInstant(day, minute, off))]
        /\ UNCHANGED <<cal, mu, thr, heap, gen>>

DoIsBusinessDayAt ==
    \E day \in NormDays, minute \in NormMinutes, off \in NormOffsets :
        /\ call' = [op |-> "IsBusinessDayAt", day |-> day, minute |-> minute,
                    t |-> normInstant(day, minute, off),
                    ret |-> IsBusinessDay(cal, normInstant(day, minute, off))]
        /\ UNCHANGED <<cal, mu, thr, heap, gen>>

NextNorm ==
    \/ DoDateFromTime
    \/ DoIsBusinessDayAt

SpecNorm == Init /\ [][NextNorm]_vars

\* The civil date after dd, by the lengths of the months.
SpecDaysIn(y, m) ==
    IF m = 2
    THEN (IF (y % 4 = 0 /\ y % 100 # 0) \/ y % 400 = 0 THEN 29 ELSE 28)
    ELSE IF m \in {4, 6, 9, 11} THEN 30 ELSE 31

SpecNextDay(dd) ==
    IF dd.day < SpecDaysIn(dd.year, dd.month) THEN mkDate(dd.year, dd.month, dd.day + 1)
    ELSE IF dd.month < 12 THEN mkDate(dd.year, dd.month + 1, 1)
    ELSE mkDate(dd.year + 1, 1, 1)

\* The UTC+9 date of UTC wall clock (day, minute): day before 15:00, the next
\* day from 15:00 on.
SpecJstDate(day, minute) == IF minute < 15 * 60 THEN day ELSE SpecNextDay(day)

\* C16: dateFromTime gives the date of the instant in UTC+9 whatever offset
\* the instant carries: 14:59 UTC of day D gives D, 15:00 UTC of D gives D+1,
\* the same instant in any other offset gives the same date, and
\* IsBusinessDay takes its weekday (and its holiday) from that date.
C16_NormalizesToJst ==
    /\ call.op = "dateFromTime" =>
          /\ call.ret = SpecJstDate(call.day, call.minute)
          /\ \A off \in NormOffsets : dateFromTime(In(call.t, off)) = call.ret
    /\ call.op = "IsBusinessDayAt" =>
          call.ret = SpecIsBusinessDay(cal, SpecJstDate(call.day, call.minute))

\* 15:00 UTC of Friday 05-01, carried in an offset behind UTC where it is
\* still Friday morning, is Saturday 05-02 in UTC+9 and no business day.
C16_Witness ==
    /\ call.op = "IsBusinessDayAt"
    /\ call.day = mkDate(2026, 5, 1)
    /\ call.minute = 15 * 60
    /\ call.t.off < UTC
    /\ SpecWeekday(call.day) = 5
    /\ call.ret = FALSE

(***************************************************************************)
(* The methods run by goroutines, step by step.  thr[th] is the frame of   *)
(* the call goroutine th is in: pc is its position, op and the arguments   *)
(* say which call it is, the other fields are the locals of the method.    *)
(* A step is one access to c.mu, custom or removed, with the local         *)
(* computation that follows it.  seen collects the overlay states that     *)
(* have existed since the call began.                                      *)
(***************************************************************************)
\* The overlay is edited concurrently on 04-29 (removed) and 04-30 (custom).
ConcRemoveTimes == {tWed29}

ConcAddTimes == {tThu30}

ConcLookupTimes == {tWed29, tThu30}

ConcBusinessTimes == {tThu30, tSat02}

ConcRanges == { <<tTue28, tThu30>>, <<tThu30, tTue28>> }

isIdle(th) == thr[th].pc = "idle"

becomes(th, f) == thr' = [thr EXCEPT ![th] = f]

\* What lookup has not yet returned.
noResult == [name |-> "", ok |-> FALSE]

\* lookup(d), called by IsHoliday, HolidayName and IsBusinessDay.
lookupFrame(op, t) ==
    [pc |-> "rlock", op |-> op, t |-> t, d |-> dateFromTime(t), r |-> noResult,
     seen |-> {cal}, ret |-> FALSE]

CallIsHoliday(th) ==
    /\ isIdle(th)
    /\ \E t \in ConcLookupTimes : becomes(th, lookupFrame("IsHoliday", t))
    /\ UNCHANGED <<cal, call, mu, heap, gen>>

CallHolidayName(th) ==
    /\ isIdle(th)
    /\ \E t \in ConcLookupTimes : becomes(th, lookupFrame("HolidayName", t))
    /\ UNCHANGED <<cal, call, mu, heap, gen>>

\* wd := t.In(jstZone).Weekday(): a weekend day returns false without lookup.
CallIsBusinessDay(th) ==
    /\ isIdle(th)
    /\ \E t \in ConcBusinessTimes :
          LET wd == Weekday(In(t, jstZone))
          IN  IF wd = Saturday \/ wd = Sunday
              THEN becomes(th, [pc |-> "done", op |-> "IsBusinessDay", t |-> t,
                                seen |-> {cal}, ret |-> FALSE])
              ELSE becomes(th, lookupFrame("IsBusinessDay", t))
    /\ UNCHANGED <<cal, call, mu, heap, gen>>

\* Holidays and holidaysInRange(from, to): all says that no range applies.
rangeFrame(op, args, from, to, all) ==
    [pc |-> "rlock", op |-> op, args |-> args, from |-> from, to |-> to,
     all |-> all, part |-> <<>>, seen |-> {cal}, ret |-> <<>>]

CallHolidays(th) ==
    /\ isIdle(th)
    /\ becomes(th, rangeFrame("Holidays", <<>>, mkDate(0, 0, 0), mkDate(0, 0, 0), TRUE))
    /\ UNCHANGED <<cal, call, mu, heap, gen>>

CallHolidaysInYear(th) ==
    /\ isIdle(th)
    /\ \E year \in {2026} :
          becomes(th, rangeFrame("HolidaysInYear", <<year>>,
                                 mkDate(year, January, 1), mkDate(year, December, 31),
                                 FALSE))
    /\ UNCHANGED <<cal, call, mu, heap, gen>>

CallHolidaysInMonth(th) ==
    /\ isIdle(th)
    /\ \E year \in {2026}, month \in {4} :
          LET lastDay == TimeDate(Date(year, month + 1, 0, 0, 0, UTC)).day
          IN  becomes(th, rangeFrame("HolidaysInMonth", <<year, month>>,
                                     mkDate(year, month, 1), mkDate(year, month, lastDay),
                                     FALSE))
    /\ UNCHANGED <<cal, call, mu, heap, gen>>

\* if toD.before(fromD) { return nil }
CallHolidaysBetween(th) ==
    /\ isIdle(th)
    /\ \E r \in ConcRanges :
          LET fromD == dateFromTime(r[1])
              toD   == dateFromTime(r[2])
          IN  IF before(toD, fromD)
              THEN becomes(th, [pc |-> "done", op |-> "HolidaysBetween", args |-> r,
                                seen |-> {cal}, ret |-> <<>>])
              ELSE becomes(th, rangeFrame("HolidaysBetween", r, fromD, toD, FALSE))
    /\ UNCHANGED <<cal, call, mu, heap, gen>>

\* d := dateFromTime(t); var best date; var bestName string; found := false
scanFrame(op, t) ==
    [pc |-> "rlock", op |-> op, t |-> t, dd |-> dateFromTime(t), acc |-> noBest,
     seen |-> {cal}, ret |-> holidayResult(noBest)]

CallNextHoliday(th) ==
    /\ isIdle(th)
    /\ \E t \in {tTue28} : becomes(th, scanFrame("NextHoliday", t))
    /\ UNCHANGED <<cal, call, mu, heap, gen>>

CallPreviousHoliday(th) ==
    /\ isIdle(th)
    /\ \E t \in {tSat02} : becomes(th, scanFrame("PreviousHoliday", t))
    /\ UNCHANGED <<cal, call, mu, heap, gen>>

\* d := dateFromTime(t); cur := d.toTime(); i := 0
searchFrame(op, t, step) ==
    [pc |-> "test", op |-> op, t |-> t, step |-> step,
     cur |-> toTime(dateFromTime(t)), i |-> 0, tests |-> 0,
     d |-> mkDate(0, 0, 0), r |-> noResult, seen |-> {cal}, ret |-> ZeroTime]

CallNextBusinessDay(th) ==
    /\ isIdle(th)
    /\ \E t \in {tWed29} : becomes(th, searchFrame("NextBusinessDay", t, 1))
    /\ UNCHANGED <<cal, call, mu, heap, gen>>

CallPreviousBusinessDay(th) ==
    /\ isIdle(th)
    /\ \E t \in {tThu30} : becomes(th, searchFrame("PreviousBusinessDay", t, -1))
    /\ UNCHANGED <<cal, call, mu, heap, gen>>

\* if toD.before(fromD) { return 0 }; count := 0; cur := fromD.toTime()
CallBusinessDaysBetween(th) ==
    /\ isIdle(th)
    /\ \E r \in ConcRanges :
          LET fromD == dateFromTime(r[1])
              toD   == dateFromTime(r[2])
          IN  IF before(toD, fromD)
              THEN becomes(th, [pc |-> "done", op |-> "BusinessDaysBetween",
                                args |-> r, seen |-> {cal}, ret |-> 0])
              ELSE becomes(th, [pc |-> "test", op |-> "BusinessDaysBetween",
                                args |-> r, cur |-> toTime(fromD), end |-> toTime(toD),
                                count |-> 0, d |-> mkDate(0, 0, 0), r |-> noResult,
                                seen |-> {cal}, ret |-> 0])
    /\ UNCHANGED <<cal, call, mu, heap, gen>>

\* d := dateFromTime(t), then c.mu.Lock().
mutFrame(op, t, name) ==
    [pc |-> "lock", op |-> op, t |-> t, name |-> name]

CallAddCustomHoliday(th) ==
    /\ isIdle(th)
    /\ \E t \in ConcAddTimes, name \in {nameList[1]} :
          becomes(th, mutFrame("AddCustomHoliday", t, name))
    /\ UNCHANGED <<cal, call, mu, heap, gen>>

CallRemoveCustomHoliday(th) ==
    /\ isIdle(th)
    /\ \E t \in ConcAddTimes : becomes(th, mutFrame("RemoveCustomHoliday", t, ""))
    /\ UNCHANGED <<cal, call, mu, heap, gen>>

CallRemoveHoliday(th) ==
    /\ isIdle(th)
    /\ \E t \in ConcRemoveTimes : becomes(th, mutFrame("RemoveHoliday", t, ""))
    /\ UNCHANGED <<cal, call, mu, heap, gen>>

CallRestoreHoliday(th) ==
    /\ isIdle(th)
    /\ \E t \in ConcRemoveTimes : becomes(th, mutFrame("RestoreHoliday", t, ""))
    /\ UNCHANGED <<cal, call, mu, heap, gen>>

\* The methods that call lookup, the two loops of the list methods and of
\* the holiday searches, and the mutators.
LookupOps ==
    {"IsHoliday", "HolidayName", "IsBusinessDay",
     "NextBusinessDay", "PreviousBusinessDay", "BusinessDaysBetween"}

ScanOps == {"NextHoliday", "PreviousHoliday"}

MutOps == {"AddCustomHoliday", "RemoveCustomHoliday", "RemoveHoliday", "RestoreHoliday"}

\* A method that goes on to read without taking the read lock.
StepRLockSkipped(th) ==
    /\ thr[th].pc = "rlock"
    /\ becomes(th, [thr[th] EXCEPT !.pc = "read"])
    /\ UNCHANGED <<cal, call, mu, heap, gen>>

\* c.mu.RLock(), called: it returns at once or th waits for the writer.
StepRLock(th) ==
    /\ thr[th].pc = "rlock"
    /\ LET m == RLock(mu, th)
       IN  /\ mu' = m
           /\ becomes(th, [thr[th] EXCEPT
                             !.pc = IF RLockReturns(m, th) THEN "read" ELSE "rlockwait"])
    /\ UNCHANGED <<cal, call, heap, gen>>

StepRLockReturn(th) ==
    /\ thr[th].pc = "rlockwait"
    /\ RLockReturns(mu, th)
    /\ becomes(th, [thr[th] EXCEPT !.pc = "read"])
    /\ UNCHANGED <<cal, call, mu, heap, gen>>

\* The body of lookup, under the read lock.
StepLookup(th) ==
    /\ thr[th].pc = "read"
    /\ thr[th].op \in LookupOps
    /\ becomes(th, [thr[th] EXCEPT !.pc = "runlock", !.r = lookup(cal, thr[th].d)])
    /\ UNCHANGED <<cal, call, mu, heap, gen>>

\* The first loop giving the read lock up when it ends.
StepBuiltinLoopUnlocks(th) ==
    /\ thr[th].pc = "read"
    /\ thr[th].op \in ListOps \cup ScanOps
    /\ LET f == thr[th]
       IN  \E rev \in BOOLEAN :
              IF f.op \in ListOps
              THEN becomes(th, [f EXCEPT !.pc = "read2",
                                  !.part = builtinInRange(cal, f.from, f.to, f.all, rev)])
              ELSE becomes(th, [f EXCEPT !.pc = "read2",
                                  !.acc = scan(SelectSeq(rangeBuiltin(rev),
                                                  LAMBDA hd : hd \notin cal.removed),
                                               builtinHolidays, f.dd, f.acc,
                                               f.op = "NextHoliday")])
    /\ mu' = RUnlock(mu, th)
    /\ UNCHANGED <<cal, call, heap, gen>>

\* for d, name := range builtinHolidays { ... }, reading removed and custom.
StepBuiltinLoop(th) ==
    /\ thr[th].pc = "read"
    /\ thr[th].op \in ListOps \cup ScanOps
    /\ LET f == thr[th]
       IN  \E rev \in BOOLEAN :
              IF f.op \in ListOps
              THEN becomes(th, [f EXCEPT !.pc = "read2",
                                  !.part = builtinInRange(cal, f.from, f.to, f.all, rev)])
              ELSE becomes(th, [f EXCEPT !.pc = "read2",
                                  !.acc = scan(SelectSeq(rangeBuiltin(rev),
                                                  LAMBDA hd : hd \notin cal.removed),
                                               builtinHolidays, f.dd, f.acc,
                                               f.op = "NextHoliday")])
    /\ UNCHANGED <<cal, call, mu, heap, gen>>

\* for d, name := range c.custom { ... }, then the sort or the found test.
StepCustomLoop(th) ==
    /\ thr[th].pc = "read2"
    /\ LET f == thr[th]
       IN  \E rev \in BOOLEAN :
              IF f.op \in ListOps
              THEN becomes(th, [f EXCEPT !.pc = "runlock",
                                  !.ret = sortSlice(f.part \o
                                             customInRange(cal, f.from, f.to, f.all, rev))])
              ELSE LET acc2 == scan(rangeOrder(DOMAIN cal.custom, rev), cal.custom,
                                    f.dd, f.acc, f.op = "NextHoliday")
                   IN  becomes(th, [f EXCEPT !.pc = "runlock", !.acc = acc2,
                                      !.ret = holidayResult(acc2)])
    /\ UNCHANGED <<cal, call, mu, heap, gen>>

\* What the caller of lookup does with (name, ok).
afterLookup(f) ==
    CASE f.op = "IsHoliday" -> [f EXCEPT !.pc = "done", !.ret = f.r.ok]
      [] f.op = "HolidayName" -> [f EXCEPT !.pc = "done", !.ret = f.r.name]
      [] f.op = "IsBusinessDay" -> [f EXCEPT !.pc = "done", !.ret = ~f.r.ok]
      [] f.op \in {"NextBusinessDay", "PreviousBusinessDay"} ->
            IF ~f.r.ok THEN [f EXCEPT !.pc = "done", !.ret = f.cur]
            ELSE [f EXCEPT !.pc = "test", !.cur = AddDate(f.cur, f.step), !.i = f.i + 1]
      [] f.op = "BusinessDaysBetween" ->
            [f EXCEPT !.pc = "test", !.cur = AddDate(f.cur, 1),
                      !.count = IF ~f.r.ok THEN f.count + 1 ELSE f.count]

\* The deferred c.mu.RUnlock(), and the return to the caller.
StepRUnlock(th) ==
    /\ thr[th].pc = "runlock"
    /\ mu' = RUnlock(mu, th)
    /\ becomes(th, IF thr[th].op \in LookupOps THEN afterLookup(thr[th])
                   ELSE [thr[th] EXCEPT !.pc = "done"])
    /\ UNCHANGED <<cal, call, heap, gen>>

\* The head of a search loop that has no bound on i.
StepTestUnbounded(th) ==
    /\ thr[th].pc = "test"
    /\ LET f  == thr[th]
           wd == Weekday(In(f.cur, jstZone))
       IN  IF wd = Saturday \/ wd = Sunday
           THEN becomes(th, [f EXCEPT !.cur = AddDate(f.cur, f.step),
                                      !.i = f.i + 1, !.tests = f.tests + 1])
           ELSE becomes(th, [f EXCEPT !.pc = "rlock", !.d = dateFromTime(f.cur),
                                      !.tests = f.tests + 1])
    /\ UNCHANGED <<cal, call, mu, heap, gen>>

\* The head of the loop of a business-day search and the weekday test of
\* IsBusinessDay(cur), which goes on to lookup on a weekday.
StepTest(th) ==
    /\ thr[th].pc = "test"
    /\ LET f  == thr[th]
           wd == Weekday(In(f.cur, jstZone))
           weekend == wd = Saturday \/ wd = Sunday
       IN  IF f.op = "BusinessDaysBetween"
           THEN IF TimeAfter(f.cur, f.end)
                THEN becomes(th, [f EXCEPT !.pc = "done", !.ret = f.count])
                ELSE IF weekend
                THEN becomes(th, [f EXCEPT !.cur = AddDate(f.cur, 1)])
                ELSE becomes(th, [f EXCEPT !.pc = "rlock", !.d = dateFromTime(f.cur)])
           ELSE IF ~(f.i < 366)
                THEN becomes(th, [f EXCEPT !.pc = "done", !.ret = ZeroTime])
                ELSE IF weekend
                THEN becomes(th, [f EXCEPT !.cur = AddDate(f.cur, f.step),
                                           !.i = f.i + 1, !.tests = f.tests + 1])
                ELSE becomes(th, [f EXCEPT !.pc = "rlock", !.d = dateFromTime(f.cur),
                                           !.tests = f.tests + 1])
    /\ UNCHANGED <<cal, call, mu, heap, gen>>

\* c.mu.Lock(), called once no other writer is in; it returns at once or th
\* waits for the readers to leave.
StepLock(th) ==
    /\ thr[th].pc = "lock"
    /\ LockEnters(mu, th)
    /\ LET m == Lock(mu, th)
       IN  /\ mu' = m
           /\ becomes(th, [thr[th] EXCEPT
                             !.pc = IF LockReturns(m, th) THEN "write" ELSE "lockwait"])
    /\ UNCHANGED <<cal, call, heap, gen>>

\* Lock returning while readers are still in.
StepLockReturnEarly(th) ==
    /\ thr[th].pc = "lockwait"
    /\ becomes(th, [thr[th] EXCEPT !.pc = "write"])
    /\ UNCHANGED <<cal, call, mu, heap, gen>>

StepLockReturn(th) ==
    /\ thr[th].pc = "lockwait"
    /\ LockReturns(mu, th)
    /\ becomes(th, [thr[th] EXCEPT !.pc = "write"])
    /\ UNCHANGED <<cal, call, mu, heap, gen>>

\* The write of the mutator on overlay c.
written(f, c) ==
    CASE f.op = "AddCustomHoliday" -> AddCustomHoliday(c, f.t, f.name)
      [] f.op = "RemoveCustomHoliday" -> RemoveCustomHoliday(c, f.t)
      [] f.op = "RemoveHoliday" -> RemoveHoliday(c, f.t)
      [] f.op = "RestoreHoliday" -> RestoreHoliday(c, f.t)

\* c.custom[d] = name, delete(c.custom, d), c.removed[d] = true or
\* delete(c.removed, d), under the write lock.  The calls in progress have
\* the new overlay added to the states they have lived through.
StepWrite(th) ==
    /\ thr[th].pc = "write"
    /\ cal' = written(thr[th], cal)
    /\ thr' = [o \in Threads |->
                 IF o = th THEN [thr[o] EXCEPT !.pc = "unlock"]
                 ELSE IF thr[o].pc \notin {"idle", "done"} /\ thr[o].op \notin MutOps
                 THEN [thr[o] EXCEPT !.seen = @ \cup {cal'}]
                 ELSE thr[o]]
    /\ UNCHANGED <<call, mu, heap, gen>>

\* A mutator returning without Unlock.
StepUnlockForgotten(th) ==
    /\ thr[th].pc = "unlock"
    /\ becomes(th, [thr[th] EXCEPT !.pc = "done"])
    /\ UNCHANGED <<cal, call, mu, heap, gen>>

\* The deferred c.mu.Unlock().
StepUnlock(th) ==
    /\ thr[th].pc = "unlock"
    /\ mu' = Unlock(mu, th)
    /\ becomes(th, [thr[th] EXCEPT !.pc = "done"])
    /\ UNCHANGED <<cal, call, heap, gen>>

\* The caller has the result and the goroutine is free for its next call.
StepReturn(th) ==
    /\ thr[th].pc = "done"
    /\ becomes(th, idle)
    /\ UNCHANGED <<cal, call, mu, heap, gen>>

\* The steps of a call in progress.
Step(th) ==
    \/ StepRLock(th)
    \/ StepRLockReturn(th)
    \/ StepLookup(th)
    \/ StepBuiltinLoop(th)
    \/ StepCustomLoop(th)
    \/ StepRUnlock(th)
    \/ StepTest(th)
    \/ StepLock(th)
    \/ StepLockReturn(th)
    \/ StepWrite(th)
    \/ StepUnlock(th)
    \/ StepReturn(th)

CallRead(th) ==
    \/ CallIsHoliday(th)
    \/ CallHolidayName(th)
    \/ CallIsBusinessDay(th)
    \/ CallHolidays(th)
    \/ CallHolidaysInYear(th)
    \/ CallHolidaysInMonth(th)
    \/ CallHolidaysBetween(th)
    \/ CallNextHoliday(th)
    \/ CallPreviousHoliday(th)
    \/ CallNextBusinessDay(th)
    \/ CallPreviousBusinessDay(th)
    \/ CallBusinessDaysBetween(th)

CallMutator(th) ==
    \/ CallAddCustomHoliday(th)
    \/ CallRemoveCustomHoliday(th)
    \/ CallRemoveHoliday(th)
    \/ CallRestoreHoliday(th)

NextConc == \E th \in Threads : CallRead(th) \/ CallMutator(th) \/ Step(th)

SpecConc == Init /\ [][NextConc]_vars

(***************************************************************************)
(* The searches on a calendar where a caller has made every day from       *)
(* 2025-12-31 to 2027-01-01 a custom holiday, as the exhaustion tests do   *)
(* for 366 days; one goroutine calls, and may free and block 2026-06-15.   *)
(***************************************************************************)
blockedDays ==
    LET first == toTime(mkDate(2025, 12, 31)).abs \div MinutesPerDay
        last  == toTime(mkDate(2027, 1, 1)).abs \div MinutesPerDay
    IN  { TimeDate([abs |-> n * MinutesPerDay, off |-> UTC]) : n \in first..last }

blockedCalendar == [custom |-> [hd \in blockedDays |-> "blocked"], removed |-> {}]

InitExhaust ==
    /\ cal = blockedCalendar
    /\ call = [op |-> "New"]
    /\ mu = muFree
    /\ thr = [th \in Threads |-> idle]
    /\ heap = heapInit
    /\ gen = genInit

\* The last of the 366 dates is blocked from the first two, and is Monday
\* 2027-01-04 from the third.
ExhaustNextTimes ==
    { Date(2025, 12, 31, 0, 0, UTC), Date(2026, 1, 1, 0, 0, UTC),
      Date(2026, 1, 4, 0, 0, UTC), Date(2026, 1, 5, 0, 0, UTC) }

\* The last of the 366 dates is blocked from the first two, and is Tuesday
\* 2025-12-30 from the third.
ExhaustPreviousTimes ==
    { Date(2027, 1, 1, 0, 0, UTC), Date(2026, 12, 31, 0, 0, UTC),
      Date(2026, 12, 30, 0, 0, UTC), Date(2026, 12, 29, 0, 0, UTC) }

tMidYear == Date(2026, 6, 15, 0, 0, UTC)        \* 06-15 09:00 JST, a Monday

ExhaustNextBusinessDay ==
    /\ isIdle(1)
    /\ \E t \in ExhaustNextTimes : becomes(1, searchFrame("NextBusinessDay", t, 1))
    /\ UNCHANGED <<cal, call, mu, heap, gen>>

ExhaustPreviousBusinessDay ==
    /\ isIdle(1)
    /\ \E t \in ExhaustPreviousTimes :
          becomes(1, searchFrame("PreviousBusinessDay", t, -1))
    /\ UNCHANGED <<cal, call, mu, heap, gen>>

ExhaustAddCustomHoliday ==
    /\ isIdle(1)
    /\ becomes(1, mutFrame("AddCustomHoliday", tMidYear, "blocked"))
    /\ UNCHANGED <<cal, call, mu, heap, gen>>

ExhaustRemoveCustomHoliday ==
    /\ isIdle(1)
    /\ becomes(1, mutFrame("RemoveCustomHoliday", tMidYear, ""))
    /\ UNCHANGED <<cal, call, mu, heap, gen>>

NextExhaust ==
    \/ ExhaustNextBusinessDay
    \/ ExhaustPreviousBusinessDay
    \/ ExhaustAddCustomHoliday
    \/ ExhaustRemoveCustomHoliday
    \/ StepTest(1)
    \/ StepRLock(1)
    \/ StepLookup(1)
    \/ StepRUnlock(1)
    \/ StepLock(1)
    \/ StepWrite(1)
    \/ StepUnlock(1)
    \/ StepReturn(1)

SpecExhaust == InitExhaust /\ [][NextExhaust]_vars

\* C12: NextBusinessDay and PreviousBusinessDay never make more than 366
\* IsBusinessDay tests; a call returns after at most 366 of them, and when
\* none of the 366 dates d, d+1, ..., d+365 (d, d-1, ..., d-365) is a business
\* day it has made exactly 366 and returns the zero time.
C12_SearchStopsAt366 ==
    \A th \in Threads :
        (thr[th].pc # "idle" /\ thr[th].op \in {"NextBusinessDay", "PreviousBusinessDay"}) =>
            LET f  == thr[th]
                d0 == toTime(dateFromTime(f.t)).abs \div MinutesPerDay
                dayDate(n) == TimeDate([abs |-> n * MinutesPerDay, off |-> UTC])
                none == \A j \in 0..365 :
                            ~SpecIsBusinessDay(cal, dayDate(d0 + j * f.step))
            IN  /\ f.tests <= 366
                /\ f.i <= 366
                /\ (f.pc = "test" /\ f.i = 366) => f.tests = 366
                /\ f.pc = "done" =>
                      /\ none => (f.ret = ZeroTime /\ f.tests = 366)
                      /\ ~none => (f.ret # ZeroTime /\ f.tests = f.i + 1)

\* A search over 366 blocked dates has returned the zero time.
C12_Witness ==
    /\ thr[1].pc = "done"
    /\ thr[1].op = "PreviousBusinessDay"
    /\ thr[1].tests = 366
    /\ thr[1].ret = ZeroTime
    /\ \A j \in 0..365 :
          dateFromTime(AddDate(toTime(dateFromTime(thr[1].t)), -j)) \in DOMAIN cal.custom

(***************************************************************************)
(* The claims about goroutines.                                            *)
(***************************************************************************)
\* th is between the return of Lock and Unlock.
inWrite(th) == thr[th].pc \in {"write", "unlock"}

\* th is between the return of RLock and RUnlock.
inRead(th) == thr[th].pc \in {"read", "read2", "runlock"}

\* C17: while a mutator is between Lock and Unlock no other goroutine is
\* between Lock and Unlock or between RLock and RUnlock, so that no step that
\* reads custom or removed falls between the two; the lock state agrees.
C17_MutatorsExclude ==
    \A th \in Threads :
        /\ inWrite(th) =>
              /\ mu.w = {th}
              /\ mu.readers = {}
              /\ \A o \in Threads \ {th} : ~inWrite(o) /\ ~inRead(o)
        /\ inRead(th) => th \in mu.readers

\* A mutator is about to write while a reader that called RLock is kept out.
C17_Witness ==
    \E th \in Threads, o \in Threads :
        /\ thr[th].pc = "write"
        /\ thr[o].pc = "rlockwait"
        /\ o \in mu.blocked

\* Two goroutines are between RLock and RUnlock at once.
ReadersOverlap ==
    \E th \in Threads : \E o \in Threads \ {th} : inRead(th) /\ inRead(o)

\* What the call of frame f returns on overlay c, with either order of
\* iteration of the maps.
resultsOn(f, c) ==
    CASE f.op = "IsHoliday" -> { IsHoliday(c, f.t) }
      [] f.op = "HolidayName" -> { HolidayName(c, f.t) }
      [] f.op = "IsBusinessDay" -> { IsBusinessDay(c, f.t) }
      [] f.op = "NextBusinessDay" -> { NextBusinessDay(c, f.t) }
      [] f.op = "PreviousBusinessDay" -> { PreviousBusinessDay(c, f.t) }
      [] f.op = "BusinessDaysBetween" -> { BusinessDaysBetween(c, f.args[1], f.args[2]) }
      [] f.op = "Holidays" -> { Holidays(c, rev) : rev \in BOOLEAN }
      [] f.op = "HolidaysInYear" ->
            { HolidaysInYear(c, f.args[1], rev) : rev \in BOOLEAN }
      [] f.op = "HolidaysInMonth" ->
            { HolidaysInMonth(c, f.args[1], f.args[2], rev) : rev \in BOOLEAN }
      [] f.op = "HolidaysBetween" ->
            { HolidaysBetween(c, f.args[1], f.args[2], rev) : rev \in BOOLEAN }
      [] f.op = "NextHoliday" -> { NextHoliday(c, f.t, rev) : rev \in BOOLEAN }
      [] f.op = "PreviousHoliday" -> { PreviousHoliday(c, f.t, rev) : rev \in BOOLEAN }

\* The returned value is what the call gives on one overlay state that has
\* existed since the call began.
atomic(f) == \E c \in f.seen : f.ret \in resultsOn(f, c)

SearchOps == {"NextBusinessDay", "PreviousBusinessDay", "BusinessDaysBetween"}

\* C18: the result of every read operation that goes through lookup, the
\* searches NextBusinessDay, PreviousBusinessDay and BusinessDaysBetween
\* included, is the result on one single overlay state that existed between
\* its call and its return.
C18_SearchSeesOneState ==
    \A th \in Threads :
        (thr[th].pc = "done" /\ thr[th].op \in LookupOps) => atomic(thr[th])

\* C18, as the methods are: IsHoliday, HolidayName and IsBusinessDay return
\* the result on one overlay state that existed during the call; a search
\* holds the read lock during each of its per-date tests and not between
\* them, and each test is answered by the overlay of that moment, which is
\* one the call has lived through.
C18_EachTestSeesOneState ==
    \A th \in Threads :
        LET f == thr[th]
        IN  (f.pc # "idle" /\ f.op \in LookupOps) =>
                /\ (f.pc = "done" /\ f.op \notin SearchOps) => atomic(f)
                /\ f.pc \in {"read", "runlock"} => (th \in mu.readers /\ cal \in f.seen)
                /\ f.pc = "runlock" => f.r = lookup(cal, f.d)
                /\ f.pc \in {"test", "done"} => th \notin mu.readers

\* BusinessDaysBetween has returned a count that no overlay state of its
\* lifetime gives: its tests saw two different states.
C18_Witness ==
    \E th \in Threads :
        /\ thr[th].pc = "done"
        /\ thr[th].op = "BusinessDaysBetween"
        /\ Cardinality(thr[th].seen) >= 3
        /\ ~atomic(thr[th])

\* C19: the list a list method returns and the holiday NextHoliday or
\* PreviousHoliday returns are what the method gives on one overlay state
\* that existed between call and return; both loops run between one RLock
\* and its RUnlock.
C19_ScansSeeOneState ==
    \A th \in Threads :
        LET f == thr[th]
        IN  (f.pc # "idle" /\ f.op \in ListOps \cup ScanOps) =>
                /\ f.pc = "done" => atomic(f)
                /\ f.pc \in {"read", "read2", "runlock"} => th \in mu.readers

\* A list method has returned while mutators ran: it lived through three
\* overlay states and its list is not the list of the overlay of now.
C19_Witness ==
    \E th \in Threads :
        /\ thr[th].pc = "done"
        /\ thr[th].op \in ListOps
        /\ Cardinality(thr[th].seen) >= 3
        /\ thr[th].ret \notin resultsOn(thr[th], cal)

\* The calls of the liveness check: a lookup, the predicate that returns
\* without lookup on a weekend, a list method, a search that calls lookup
\* once per date, and the four mutators.
CallLive(th) ==
    \/ CallIsHoliday(th)
    \/ CallIsBusinessDay(th)
    \/ CallHolidaysInMonth(th)
    \/ CallNextBusinessDay(th)
    \/ CallMutator(th)

NextLive == \E th \in Threads : CallLive(th) \/ Step(th)

\* The scheduler runs every goroutine that can take a step, and sync.Mutex,
\* which orders the writers inside RWMutex.Lock, hands the lock to a waiter
\* that has waited long (its starvation mode): a goroutine that finds the
\* writers' lock free again and again gets it.
Fairness ==
    \A th \in Threads : WF_vars(Step(th)) /\ SF_vars(StepLock(th))

SpecLive == Init /\ [][NextLive]_vars /\ Fairness

\* th holds c.mu or is queued for it.
holdsOrWaits(th) == th \in mu.w \cup mu.readers \cup mu.blocked

\* C20: every call a goroutine has started returns; no goroutine calls RLock
\* or Lock while it holds the lock or waits for it; a goroutine that is in no
\* call or has returned holds nothing; and while a call is in progress some
\* goroutine in a call can step.
C20_EveryCallReturns ==
    /\ \A th \in Threads : (thr[th].pc # "idle") ~> (thr[th].pc = "done")
    /\ [](\A th \in Threads :
            /\ thr[th].pc \in {"rlock", "lock"} => ~holdsOrWaits(th)
            /\ thr[th].pc \in {"idle", "done"} => ~holdsOrWaits(th))
    /\ []((\A th \in Threads : thr[th].pc = "idle")
            \/ (\E th \in Threads : ENABLED Step(th)))

\* A mutator has called Lock and waits for a reader to leave, while the other
\* mutators are kept out.
C20_Witness ==
    \E th \in Threads : \E o \in Threads \ {th} :
        /\ thr[th].pc = "lockwait"
        /\ inRead(o)
        /\ mu.w = {th}

(***************************************************************************)
(* The mutators, one after another.                                        *)
(***************************************************************************)
\* C21 as stated: for a date of the Dataset, right after RemoveHoliday(t)
\* IsHoliday(t) is false and HolidayName(t) is "", in every reachable state.
C21_RemovedIsNoHoliday ==
    (call.op = "RemoveHoliday" /\ dateFromTime(call.t) \in DOMAIN builtinHolidays) =>
        /\ ~IsHoliday(cal, call.t)
        /\ HolidayName(cal, call.t) = ""

\* C21: for a date of the Dataset, right after RemoveHoliday(t) IsHoliday(t)
\* is false and HolidayName(t) is "" when the date has no custom entry; when
\* it has one, IsHoliday(t) is true and HolidayName(t) is the custom name.
C21_RemovedIsNoHolidayUnlessCustom ==
    (call.op = "RemoveHoliday" /\ dateFromTime(call.t) \in DOMAIN builtinHolidays) =>
        LET dd == dateFromTime(call.t)
        IN  IF dd \in DOMAIN cal.custom
            THEN IsHoliday(cal, call.t) /\ HolidayName(cal, call.t) = cal.custom[dd]
            ELSE ~IsHoliday(cal, call.t) /\ HolidayName(cal, call.t) = ""

\* RemoveHoliday has suppressed a built-in holiday that was one until then.
C21_Witness ==
    /\ call.op = "RemoveHoliday"
    /\ dateFromTime(call.t) \in DOMAIN builtinHolidays
    /\ dateFromTime(call.t) \notin DOMAIN cal.custom
    /\ call.old = [name |-> builtinHolidays[dateFromTime(call.t)], ok |-> TRUE]
    /\ ~IsHoliday(cal, call.t)

\* C22 as stated: from every reachable state, RemoveHoliday(t) followed by
\* RestoreHoliday(t) leaves IsHoliday(t) and HolidayName(t) as they were just
\* before the RemoveHoliday.
C22_RestoreReverts ==
    call.op = "RemoveHoliday" =>
        lookup(RestoreHoliday(cal, call.t), dateFromTime(call.t)) = call.old

\* C22: RemoveHoliday(t) followed by RestoreHoliday(t) leaves IsHoliday(t)
\* and HolidayName(t) as they were just before the RemoveHoliday, unless the
\* date was suppressed already, is in the Dataset and has no custom entry:
\* then the pair leaves it a holiday under its built-in name.  (RemoveHoliday
\* leaves custom alone, so a built-in date without custom entry whose lookup
\* failed before the call was in removed.)
C22_RestoreRevertsUnlessRemovedBefore ==
    call.op = "RemoveHoliday" =>
        LET dd == dateFromTime(call.t)
            restored == lookup(RestoreHoliday(cal, call.t), dd)
            removedBefore == /\ dd \in DOMAIN builtinHolidays
                             /\ dd \notin DOMAIN cal.custom
                             /\ ~call.old.ok
        IN  IF removedBefore
            THEN restored = [name |-> builtinHolidays[dd], ok |-> TRUE]
            ELSE restored = call.old

\* A built-in holiday is suppressed by RemoveHoliday and RestoreHoliday gives
\* it back under the name it had.
C22_Witness ==
    /\ call.op = "RemoveHoliday"
    /\ call.old.ok
    /\ dateFromTime(call.t) \notin DOMAIN cal.custom
    /\ lookup(cal, dateFromTime(call.t)) = [name |-> "", ok |-> FALSE]
    /\ lookup(RestoreHoliday(cal, call.t), dateFromTime(call.t)) = call.old

\* C23: after RemoveCustomHoliday(t) the date is not in custom, so IsHoliday(t)
\* is true iff the date is in the Dataset and not in removed; when the date
\* was not in custom the call changes nothing, and RestoreHoliday(t) changes
\* nothing when the date is not in removed.
C23_RemoveCustomAndNoOps ==
    [][ /\ call'.op = "RemoveCustomHoliday" =>
            LET dd == dateFromTime(call'.t)
            IN  /\ dd \notin DOMAIN cal'.custom
                /\ IsHoliday(cal', call'.t) =
                       (dd \in DOMAIN builtinHolidays /\ dd \notin cal'.removed)
                /\ (dd \notin DOMAIN cal.custom => cal' = cal)
        /\ call'.op = "RestoreHoliday" =>
            (dateFromTime(call'.t) \notin cal.removed => cal' = cal)
      ]_vars

\* RemoveCustomHoliday was called for a date that had no custom entry, while
\* another date has one.
C23_Witness ==
    /\ call.op = "RemoveCustomHoliday"
    /\ ~call.old.ok
    /\ dateFromTime(call.t) \notin DOMAIN builtinHolidays
    /\ DOMAIN cal.custom # {}

\* C24: AddCustomHoliday(t, n) and RemoveCustomHoliday(t) leave removed as it
\* is and custom as it is at every other date; RemoveHoliday(t) and
\* RestoreHoliday(t) leave custom as it is and removed as it is at every
\* other date.
C24_MutatorsWriteOneEntry ==
    [][ /\ call'.op \in {"AddCustomHoliday", "RemoveCustomHoliday"} =>
            LET dd == dateFromTime(call'.t)
            IN  /\ cal'.removed = cal.removed
                /\ DOMAIN cal'.custom \ {dd} = DOMAIN cal.custom \ {dd}
                /\ \A hd \in DOMAIN cal.custom \ {dd} :
                       cal'.custom[hd] = cal.custom[hd]
        /\ call'.op \in {"RemoveHoliday", "RestoreHoliday"} =>
            LET dd == dateFromTime(call'.t)
            IN  /\ cal'.custom = cal.custom
                /\ cal'.removed \ {dd} = cal.removed \ {dd}
      ]_vars

\* RemoveHoliday was called for a date that has a custom entry, while another
\* date has a custom entry and is suppressed.
C24_Witness ==
    /\ call.op = "RemoveHoliday"
    /\ dateFromTime(call.t) = dateFromTime(tWed29)
    /\ dateFromTime(tWed29) \in DOMAIN cal.custom
    /\ dateFromTime(tThu30) \in DOMAIN cal.custom
    /\ dateFromTime(tThu30) \in cal.removed

(***************************************************************************)
(* Several Calendars: the package-level one and those the caller makes     *)
(* with New.  on is the Calendar a call is made on; the top-level          *)
(* functions are the calls with on = defaultCal.                           *)
(***************************************************************************)
CalTimes == {tWed29, tThu30}

\* The built-in holiday that is suppressed and restored.
CalRemoveTimes == {tWed29}

Cals == 1..Len(heap.cals)

CalsNew ==
    /\ Len(heap.cals) < MaxCalendars
    /\ heap' = newCalendar(heap)
    /\ call' = [op |-> "New", on |-> Len(heap.cals) + 1]
    /\ UNCHANGED <<cal, mu, thr, gen>>

CalsIsHoliday ==
    \E i \in Cals, t \in CalTimes :
        /\ call' = [op |-> "IsHoliday", on |-> i, t |-> t,
                    ret |-> IsHoliday(deref(heap, i), t)]
        /\ UNCHANGED <<cal, mu, thr, heap, gen>>

CalsHolidayName ==
    \E i \in Cals, t \in CalTimes :
        /\ call' = [op |-> "HolidayName", on |-> i, t |-> t,
                    ret |-> HolidayName(deref(heap, i), t)]
        /\ UNCHANGED <<cal, mu, thr, heap, gen>>

CalsAddCustomHoliday ==
    \E i \in Cals, t \in CalTimes :
        /\ heap' = storeCustom(heap, i, AddCustomHoliday(deref(heap, i), t, nameList[1]))
        /\ call' = [op |-> "AddCustomHoliday", on |-> i, t |-> t, name |-> nameList[1]]
        /\ UNCHANGED <<cal, mu, thr, gen>>

CalsRemoveCustomHoliday ==
    \E i \in Cals, t \in CalTimes :
        /\ heap' = storeCustom(heap, i, RemoveCustomHoliday(deref(heap, i), t))
        /\ call' = [op |-> "RemoveCustomHoliday", on |-> i, t |-> t]
        /\ UNCHANGED <<cal, mu, thr, gen>>

CalsRemoveHoliday ==
    \E i \in Cals, t \in CalRemoveTimes :
        /\ heap' = storeRemoved(heap, i, RemoveHoliday(deref(heap, i), t))
        /\ call' = [op |-> "RemoveHoliday", on |-> i, t |-> t]
        /\ UNCHANGED <<cal, mu, thr, gen>>

CalsRestoreHoliday ==
    \E i \in Cals, t \in CalRemoveTimes :
        /\ heap' = storeRemoved(heap, i, RestoreHoliday(deref(heap, i), t))
        /\ call' = [op |-> "RestoreHoliday", on |-> i, t |-> t]
        /\ UNCHANGED <<cal, mu, thr, gen>>

NextCals ==
    \/ CalsNew
    \/ CalsIsHoliday
    \/ CalsHolidayName
    \/ CalsAddCustomHoliday
    \/ CalsRemoveCustomHoliday
    \/ CalsRemoveHoliday
    \/ CalsRestoreHoliday

SpecCals == Init /\ [][NextCals]_vars

\* What a caller can ask of the Calendar i on the dates of the calls.
answers(h, i) ==
    [t \in CalTimes |->
        <<IsHoliday(deref(h, i), t), HolidayName(deref(h, i), t),
          IsBusinessDay(deref(h, i), t)>>]

\* C25: no call on one Calendar (one made by New or the package-level one)
\* changes custom, removed or an answer of another Calendar, and a Calendar
\* made by New starts with custom and removed empty.
C25_CalendarsIndependent ==
    [][ /\ \A j \in Cals :
              j # call'.on =>
                  /\ deref(heap', j) = deref(heap, j)
                  /\ answers(heap', j) = answers(heap, j)
        /\ call'.op = "New" =>
              /\ deref(heap', call'.on) = [custom |-> <<>>, removed |-> {}]
              /\ \A t \in CalTimes :
                    IsHoliday(deref(heap', call'.on), t)
                        = (dateFromTime(t) \in DOMAIN builtinHolidays)
      ]_vars

\* A call on the Calendar made by New has given it a custom holiday on a date
\* the package-level Calendar suppresses, and the package-level Calendar has
\* a custom holiday the other has not.
C25_Witness ==
    /\ Len(heap.cals) = 2
    /\ call.op = "AddCustomHoliday"
    /\ call.on = 2
    /\ dateFromTime(call.t) \in DOMAIN deref(heap, 2).custom
    /\ dateFromTime(call.t) \in deref(heap, defaultCal).removed
    /\ dateFromTime(call.t) \notin DOMAIN deref(heap, defaultCal).custom
    /\ DOMAIN deref(heap, defaultCal).custom # {}

(***************************************************************************)
(* The reads.                                                              *)
(***************************************************************************)
ReadOps ==
    {"IsHoliday", "HolidayName", "HolidaysInYear", "HolidaysInMonth",
     "HolidaysBetween", "Holidays", "IsBusinessDay", "NextHoliday",
     "PreviousHoliday", "NextBusinessDay", "PreviousBusinessDay",
     "BusinessDaysBetween"}

\* C26: no read (IsHoliday, HolidayName, the four lists, IsBusinessDay,
\* NextHoliday, PreviousHoliday, NextBusinessDay, PreviousBusinessDay,
\* BusinessDaysBetween) changes custom or removed; the Dataset is the same
\* value in every state.
C26_ReadsChangeNothing ==
    [][ call'.op \in ReadOps => cal' = cal ]_vars

\* A list was read from a Calendar with a custom entry and a suppression.
C26_Witness ==
    /\ call.op = "Holidays"
    /\ DOMAIN cal.custom # {}
    /\ cal.removed # {}

\* C27: HolidaysBetween(from, to) with the date of from after the date of to
\* returns the empty list, in every overlay state.
C27_ReversedRangeIsEmpty ==
    (call.op = "HolidaysBetween"
        /\ dateKey(dateFromTime(call.from)) > dateKey(dateFromTime(call.to))) =>
        call.ret = <<>>

\* A reversed range was asked for while custom holidays and a built-in
\* holiday lie between its ends.
C27_Witness ==
    /\ call.op = "HolidaysBetween"
    /\ call.from = tMon04
    /\ call.to = tTue28
    /\ call.ret = <<>>
    /\ dateFromTime(tWed29) \in DOMAIN cal.custom
    /\ dateFromTime(tThu30) \in DOMAIN cal.custom
    /\ Len(HolidaysBetween(cal, call.to, call.from, FALSE)) >= 2

(***************************************************************************)
(* The lists of a year and of a month, on Calendars with custom holidays   *)
(* on the last day of a month and the first day of the next: February of a *)
(* leap year and of a common year, and the turn of the year.               *)
(***************************************************************************)
EdgeDays ==
    { mkDate(2024, 2, 29), mkDate(2024, 3, 1),
      mkDate(2025, 2, 28), mkDate(2025, 3, 1),
      mkDate(2026, 12, 31), mkDate(2027, 1, 1) }

EdgeTimes == { Date(dd.year, dd.month, dd.day, 0, 0, jstZone) : dd \in EdgeDays }

EdgeYears == {2024, 2025, 2026}

AllMonths == January..December

MonthsAddCustomHoliday ==
    \E t \in EdgeTimes :
        /\ cal' = AddCustomHoliday(cal, t, nameList[1])
        /\ call' = [op |-> "AddCustomHoliday", t |-> t, name |-> nameList[1],
                    old |-> lookup(cal, dateFromTime(t))]
        /\ UNCHANGED <<mu, thr, heap, gen>>

MonthsRemoveCustomHoliday ==
    \E t \in EdgeTimes :
        /\ cal' = RemoveCustomHoliday(cal, t)
        /\ call' = [op |-> "RemoveCustomHoliday", t |-> t,
                    old |-> lookup(cal, dateFromTime(t))]
        /\ UNCHANGED <<mu, thr, heap, gen>>

MonthsRemoveHoliday ==
    /\ cal' = RemoveHoliday(cal, tNewYear)
    /\ call' = [op |-> "RemoveHoliday", t |-> tNewYear,
                old |-> lookup(cal, dateFromTime(tNewYear))]
    /\ UNCHANGED <<mu, thr, heap, gen>>

MonthsRestoreHoliday ==
    /\ cal' = RestoreHoliday(cal, tNewYear)
    /\ call' = [op |-> "RestoreHoliday", t |-> tNewYear,
                old |-> lookup(cal, dateFromTime(tNewYear))]
    /\ UNCHANGED <<mu, thr, heap, gen>>

MonthsHolidaysInYear ==
    \E year \in EdgeYears, rev \in BOOLEAN :
        /\ call' = [op |-> "HolidaysInYear", year |-> year,
                    ret |-> HolidaysInYear(cal, year, rev)]
        /\ UNCHANGED <<cal, mu, thr, heap, gen>>

MonthsHolidaysInMonth ==
    \E year \in EdgeYears, month \in AllMonths, rev \in BOOLEAN :
        /\ call' = [op |-> "HolidaysInMonth", year |-> year, month |-> month,
                    ret |-> HolidaysInMonth(cal, year, month, rev)]
        /\ UNCHANGED <<cal, mu, thr, heap, gen>>

MonthsHolidays ==
    \E rev \in BOOLEAN :
        /\ call' = [op |-> "Holidays", ret |-> Holidays(cal, rev)]
        /\ UNCHANGED <<cal, mu, thr, heap, gen>>

NextMonths ==
    \/ MonthsAddCustomHoliday
    \/ MonthsRemoveCustomHoliday
    \/ MonthsRemoveHoliday
    \/ MonthsRestoreHoliday
    \/ MonthsHolidaysInYear
    \/ MonthsHolidaysInMonth
    \/ MonthsHolidays

SpecMonths == Init /\ [][NextMonths]_vars

\* Section 4.3: the holidays of c whose date lies in [lo, hi] (as numbers
\* yyyymmdd), in ascending order of date, each under the name of its date.
SpecRangeScan(c, lo, hi) ==
    LET S == { dd \in DOMAIN builtinHolidays \cup DOMAIN c.custom :
                 SpecIsHoliday(c, dd) /\ lo <= dateKey(dd) /\ dateKey(dd) <= hi }
    IN  [i \in 1..Cardinality(S) |->
            LET dd == CHOOSE e \in S :
                          Cardinality({ f \in S : dateKey(f) < dateKey(e) }) = i - 1
            IN  [Date |-> toTime(dd), Name |-> SpecHolidayName(c, dd)]]

\* C28: HolidaysInYear(y) is the range scan of [y-01-01, y-12-31],
\* HolidaysInMonth(y, m) for m in 1..12 the range scan of [first day of m,
\* last day of m], February ending on the 29th in leap years only, and
\* Holidays the range scan of all dates; no listed holiday lies outside the
\* year or the month asked for.
C28_YearAndMonthAreRangeScans ==
    /\ call.op = "HolidaysInYear" =>
          /\ call.ret = SpecRangeScan(cal, call.year * 10000 + 101,
                                      call.year * 10000 + 1231)
          /\ \A i \in 1..Len(call.ret) : TimeDate(call.ret[i].Date).year = call.year
    /\ call.op = "HolidaysInMonth" =>
          /\ call.ret = SpecRangeScan(cal,
                            dateKey(mkDate(call.year, call.month, 1)),
                            dateKey(mkDate(call.year, call.month,
                                           SpecDaysIn(call.year, call.month))))
          /\ \A i \in 1..Len(call.ret) :
                /\ TimeDate(call.ret[i].Date).year = call.year
                /\ TimeDate(call.ret[i].Date).month = call.month
    /\ call.op = "Holidays" =>
          call.ret = SpecRangeScan(cal, 0, 99991231)

\* February of the leap year 2024 was listed with the 29th in it while
\* March 1 is a custom holiday too.
C28_Witness ==
    /\ call.op = "HolidaysInMonth"
    /\ call.year = 2024
    /\ call.month = 2
    /\ mkDate(2024, 3, 1) \in DOMAIN cal.custom
    /\ call.ret = <<[Date |-> toTime(mkDate(2024, 2, 29)), Name |-> nameList[1]]>>

(***************************************************************************)
(* The order of the dates of two instants.                                 *)
(***************************************************************************)
\* C29: for two instants t1 <= t2, whatever offsets they carry, the date of
\* t1 is not after the date of t2 in the order of before and after.
C29_NormalizationMonotonic ==
    call.op = "dateFromTime" =>
        \A day \in NormDays, minute \in NormMinutes, off \in NormOffsets :
            LET t2 == normInstant(day, minute, off)
            IN  /\ call.t.abs <= t2.abs => ~after(call.ret, dateFromTime(t2))
                /\ t2.abs <= call.t.abs => ~after(dateFromTime(t2), call.ret)

\* 15:00 UTC of 2026-12-31, carried twelve hours behind UTC where it is still
\* the small hours of 12-31, has the date 2027-01-01.
C29_Witness ==
    /\ call.op = "dateFromTime"
    /\ call.day = mkDate(2026, 12, 31)
    /\ call.minute = 15 * 60
    /\ call.t.off = -12 * 60
    /\ TimeDate(call.t) = mkDate(2026, 12, 31)
    /\ call.ret = mkDate(2027, 1, 1)

(***************************************************************************)
(* The names of the holidays returned.                                     *)
(***************************************************************************)
\* C30: every Holiday returned by HolidaysInYear, HolidaysInMonth,
\* HolidaysBetween, Holidays, NextHoliday or PreviousHoliday has a non-empty
\* name, in every state the mutators can reach.
C30_ReturnedNamesNonEmpty ==
    /\ call.op \in ListOps =>
          \A i \in 1..Len(call.ret) : call.ret[i].Name # ""
    /\ (call.op \in {"NextHoliday", "PreviousHoliday"} /\ call.ret.ok) =>
          call.ret.h.Name # ""

(***************************************************************************)
(* Suppressing a date the Dataset does not hold.                           *)
(***************************************************************************)
\* Every answer a caller can get from the Calendar c, on the inputs of the
\* calls.
observe(c) ==
    [ IsHoliday           |-> [t \in QueryTimes |-> IsHoliday(c, t)],
      HolidayName         |-> [t \in QueryTimes |-> HolidayName(c, t)],
      IsBusinessDay       |-> [t \in QueryTimes |-> IsBusinessDay(c, t)],
      HolidaysInYear      |-> [y \in Years |-> HolidaysInYear(c, y, FALSE)],
      HolidaysInMonth     |-> [ym \in Years \X Months |->
                                  HolidaysInMonth(c, ym[1], ym[2], FALSE)],
      HolidaysBetween     |-> [ft \in RangeTimes \X RangeTimes |->
                                  HolidaysBetween(c, ft[1], ft[2], FALSE)],
      Holidays            |-> Holidays(c, FALSE),
      NextHoliday         |-> [tr \in QueryTimes \X BOOLEAN |->
                                  NextHoliday(c, tr[1], tr[2])],
      PreviousHoliday     |-> [tr \in QueryTimes \X BOOLEAN |->
                                  PreviousHoliday(c, tr[1], tr[2])],
      NextBusinessDay     |-> [t \in QueryTimes |-> NextBusinessDay(c, t)],
      PreviousBusinessDay |-> [t \in QueryTimes |-> PreviousBusinessDay(c, t)],
      BusinessDaysBetween |-> [ft \in RangeTimes \X RangeTimes |->
                                  BusinessDaysBetween(c, ft[1], ft[2])] ]

\* C31: RemoveHoliday(t) and RestoreHoliday(t) for a date that is not in the
\* Dataset change no answer of any query on any input.
C31_SuppressingOutsideDatasetUnobservable ==
    [][ (call'.op \in {"RemoveHoliday", "RestoreHoliday"}
            /\ dateFromTime(call'.t) \notin DOMAIN builtinHolidays) =>
        (cal' = cal \/ observe(cal') = observe(cal)) ]_vars

\* RemoveHoliday has put a date into removed that the Dataset does not hold
\* and that has a custom entry.
C31_Witness ==
    /\ call.op = "RemoveHoliday"
    /\ dateFromTime(call.t) \notin DOMAIN builtinHolidays
    /\ dateFromTime(call.t) \in cal.removed
    /\ dateFromTime(call.t) \in DOMAIN cal.custom
    /\ call.old.ok

(***************************************************************************)
(* Two mutators in either order.                                           *)
(***************************************************************************)
\* The calls of the mutators: the method, the instant and the name.
MutCalls ==
    { <<"AddCustomHoliday", t, n>> : t \in MutTimes, n \in Names }
        \cup { <<op, t, "">> :
                  op \in {"RemoveCustomHoliday", "RemoveHoliday", "RestoreHoliday"},
                  t \in MutTimes }

apply(m, c) ==
    IF m[1] = "AddCustomHoliday" THEN AddCustomHoliday(c, m[2], m[3])
    ELSE IF m[1] = "RemoveCustomHoliday" THEN RemoveCustomHoliday(c, m[2])
    ELSE IF m[1] = "RemoveHoliday" THEN RemoveHoliday(c, m[2])
    ELSE RestoreHoliday(c, m[2])

onCustom(m) == m[1] \in {"AddCustomHoliday", "RemoveCustomHoliday"}

\* C34: from every state (taken when it is made: by New, or by a mutator),
\* two mutator calls for different dates give the same
\* custom and removed in either order, and so do, for one date, a call of
\* AddCustomHoliday or RemoveCustomHoliday and a call of RemoveHoliday or
\* RestoreHoliday.
C34_MutatorsCommute ==
    call.op \in MutOps \cup {"New"} =>
        \A m1 \in MutCalls, m2 \in MutCalls :
            (dateFromTime(m1[2]) # dateFromTime(m2[2]) \/ onCustom(m1) # onCustom(m2)) =>
                apply(m2, apply(m1, cal)) = apply(m1, apply(m2, cal))

\* AddCustomHoliday was called for a suppressed date: the state is the one
\* RemoveHoliday then AddCustomHoliday give, and the one AddCustomHoliday then
\* RemoveHoliday give, from the state without either.
C34_Witness ==
    /\ call.op = "AddCustomHoliday"
    /\ dateFromTime(call.t) \in cal.removed
    /\ LET base == RestoreHoliday(RemoveCustomHoliday(cal, call.t), call.t)
       IN  /\ base # cal
           /\ cal = AddCustomHoliday(RemoveHoliday(base, call.t), call.t, call.name)
           /\ cal = RemoveHoliday(AddCustomHoliday(base, call.t, call.name), call.t)

(***************************************************************************)
(* From a date to its instant and back.                                    *)
(***************************************************************************)
\* C32: for every date d, toTime(d) is midnight UTC of d and dateFromTime
\* gives d back for it, so a returned Holiday date or business day names the
\* same date when it is passed in again; and cur.AddDate(0, 0, 1) and
\* cur.AddDate(0, 0, -1), from the instant of d, give the instant of the
\* date after d and of the date before it, none skipped and none repeated.
C32_DateRoundTrip ==
    call.op = "dateFromTime" =>
        LET dd  == call.ret
            nxt == SpecNextDay(dd)
        IN  /\ toTime(dd).off = UTC
            /\ toTime(dd).abs % MinutesPerDay = 0
            /\ TimeDate(toTime(dd)) = dd
            /\ dateFromTime(toTime(dd)) = dd
            /\ AddDate(toTime(dd), 1) = toTime(nxt)
            /\ dateFromTime(AddDate(toTime(dd), 1)) = nxt
            /\ AddDate(toTime(nxt), -1) = toTime(dd)
            /\ dateFromTime(AddDate(toTime(nxt), -1)) = dd

\* The date is the leap day 2024-02-29, got from an instant that is still on
\* 02-28 on its own wall clock; the step forward leads to 03-01.
C32_Witness ==
    /\ call.op = "dateFromTime"
    /\ call.ret = mkDate(2024, 2, 29)
    /\ TimeDate(call.t) = mkDate(2024, 2, 28)
    /\ dateFromTime(AddDate(toTime(call.ret), 1)) = mkDate(2024, 3, 1)

(***************************************************************************)
(* The searches at the first dates time.Time can name.  0001-01-01 is a    *)
(* Monday, and its instant at midnight UTC is time.Time{}.                 *)
(***************************************************************************)
\* time.Time{}; 0001-01-01 00:00 in UTC+9; Tuesday 01-02; Saturday 01-06;
\* and Saturday 2026-05-02.
EpochTimes ==
    { ZeroTime, Date(1, 1, 1, 0, 0, jstZone), Date(1, 1, 2, 0, 0, UTC),
      Date(1, 1, 6, 0, 0, UTC), tSat02 }

\* Tuesday 01-02, Wednesday 01-03 and Monday 01-08 can be made holidays.
EpochMutTimes ==
    { Date(1, 1, 2, 0, 0, UTC), Date(1, 1, 3, 0, 0, UTC), Date(1, 1, 8, 0, 0, UTC) }

EpochAddCustomHoliday ==
    \E t \in EpochMutTimes :
        /\ cal' = AddCustomHoliday(cal, t, nameList[1])
        /\ call' = [op |-> "AddCustomHoliday", t |-> t, name |-> nameList[1],
                    old |-> lookup(cal, dateFromTime(t))]
        /\ UNCHANGED <<mu, thr, heap, gen>>

EpochRemoveCustomHoliday ==
    \E t \in EpochMutTimes :
        /\ cal' = RemoveCustomHoliday(cal, t)
        /\ call' = [op |-> "RemoveCustomHoliday", t |-> t,
                    old |-> lookup(cal, dateFromTime(t))]
        /\ UNCHANGED <<mu, thr, heap, gen>>

EpochIsBusinessDay ==
    \E t \in EpochTimes :
        /\ call' = [op |-> "IsBusinessDay", t |-> t, ret |-> IsBusinessDay(cal, t)]
        /\ UNCHANGED <<cal, mu, thr, heap, gen>>

EpochNextBusinessDay ==
    \E t \in EpochTimes :
        /\ call' = [op |-> "NextBusinessDay", t |-> t,
                    ret |-> NextBusinessDay(cal, t)]
        /\ UNCHANGED <<cal, mu, thr, heap, gen>>

EpochPreviousBusinessDay ==
    \E t \in EpochTimes :
        /\ call' = [op |-> "PreviousBusinessDay", t |-> t,
                    ret |-> PreviousBusinessDay(cal, t)]
        /\ UNCHANGED <<cal, mu, thr, heap, gen>>

NextEpoch ==
    \/ EpochAddCustomHoliday
    \/ EpochRemoveCustomHoliday
    \/ EpochIsBusinessDay
    \/ EpochNextBusinessDay
    \/ EpochPreviousBusinessDay

SpecEpoch == Init /\ [][NextEpoch]_vars

\* C33: NextBusinessDay and PreviousBusinessDay return the zero instant only
\* when none of the 366 dates they test is a business day: when one is, the
\* result differs from time.Time{}, for every input date, the earliest
\* included.
C33_ZeroOnlyWhenNoneFound ==
    call.op \in {"NextBusinessDay", "PreviousBusinessDay"} =>
        LET step  == IF call.op = "NextBusinessDay" THEN 1 ELSE -1
            start == toTime(dateFromTime(call.t))
            found == \E i \in 0..365 : IsBusinessDay(cal, AddDate(start, i * step))
        IN  (call.ret = ZeroTime) <=> ~found

(***************************************************************************)
(* The generator's runs.                                                   *)
(***************************************************************************)
SpecGen == Init /\ [][NextGen]_vars

\* Every request returns (the client has httpTimeout) and every sleep ends,
\* so a run that can take a step takes one.
SpecGenLive == Init /\ [][NextGen]_vars /\ WF_vars(NextGen)

\* u, n times.
RECURSIVE repeat(_, _)
repeat(u, n) == IF n = 0 THEN <<>> ELSE <<u>> \o repeat(u, n - 1)

\* The requests the results account for, in order.
RECURSIVE requestsOf(_)
requestsOf(rs) ==
    IF rs = <<>> THEN <<>>
    ELSE repeat(Head(rs).url, Head(rs).requests) \o requestsOf(Tail(rs))

\* The last fetchWithRetry has returned and gen.outcomes is what its attempts met.
returned == gen.attempt = 0 /\ gen.results # <<>>

lastResult == gen.results[Len(gen.results)]

\* An outcome after which the claim has fetchWithRetry try again.
Retryable(o) == o.err \/ o.StatusCode \in {429, 503} \/ o.StatusCode >= 500

\* The position of the first outcome of s that is not retryable, if there is one.
firstFinal(s) ==
    {i \in DOMAIN s : ~Retryable(s[i]) /\ \A j \in 1..(i - 1) : Retryable(s[j])}

C36_AtMostThreeRequestsAndReturns ==
    /\ [](/\ gen.attempt < 3
          /\ \A i \in DOMAIN gen.results :
                /\ gen.results[i].requests <= 3
                /\ Len(SelectSeq(gen.sent, LAMBDA u : u = gen.results[i].url)) <= 3
          /\ (returned /\ firstFinal(gen.outcomes) = {}) =>
                /\ ~lastResult.reader
                /\ lastResult.err = <<lastResult.url, gen.outcomes[3]>>)
    /\ \A k \in 0..2 :
          (gen.pc = "fetchWithRetry" /\ Len(gen.results) = k) ~> (Len(gen.results) > k)

C36_Witness ==
    /\ returned
    /\ firstFinal(gen.outcomes) = {}
    /\ gen.outcomes[1].err
    /\ gen.outcomes[3].StatusCode = 503
    /\ lastResult.requests = 3
    /\ Len(gen.results) = 3
    /\ gen.pc = "exit 1"

\* The candidates in the order of the claim: the resolved URL if there is
\* one, then the fallbacks other than it.
candidatesOf(resolved) ==
    (IF resolved = "" THEN <<>> ELSE <<resolved>>)
        \o SelectSeq(<<fallbackURL1, fallbackURL2>>, LAMBDA fb : fb # resolved)

\* C37: fetchCSVWithFallbacks requests the resolved URL (if resolution
\* succeeded), then fallback 1, then fallback 2, without a fallback equal to
\* the resolved URL; it stops at the first success, and fails with "all URLs
\* failed" only when every candidate failed; without a resolved URL it tries
\* both fallbacks.
C37_CandidatesInOrder ==
    gen.pc # "fetchCSV" =>
        LET cands == candidatesOf(gen.resolved)
            k == Len(gen.results)
        IN  /\ gen.urls = cands
            /\ gen.resolved = "" => cands = <<fallbackURL1, fallbackURL2>>
            /\ k <= Len(cands)
            /\ \A i \in 1..k : gen.results[i].url = cands[i]
            /\ \A i \in 1..(k - 1) : ~gen.results[i].reader /\ gen.results[i].err # nil
            /\ gen.pc = "fetchWithRetry" =>
                /\ k < Len(cands)
                /\ \A i \in 1..k : ~gen.results[i].reader
                /\ gen.sent = <<ckanAPIURL>> \o requestsOf(gen.results)
                                  \o repeat(cands[k + 1], gen.attempt)
            /\ gen.pc # "fetchWithRetry" =>
                /\ gen.sent = <<ckanAPIURL>> \o requestsOf(gen.results)
                /\ (k > 0 /\ lastResult.reader) <=> ("fetchCSV" \in {gen.steps[i] : i \in DOMAIN gen.steps})
                /\ (gen.fatal # nil /\ gen.fatal[1] = "failed to fetch CSV") <=>
                       (k = Len(cands) /\ \A i \in 1..k : gen.results[i].err # nil)

C37_Witness ==
    /\ gen.resolved = fallbackURL2
    /\ Len(gen.results) = 2
    /\ gen.results[1].url = fallbackURL2
    /\ gen.results[1].requests = 3
    /\ gen.results[2].url = fallbackURL1
    /\ gen.results[2].reader
    /\ gen.pc = "parseCSV"

\* C38: resolveCSVURLFrom returns a URL only with scheme https and a host of
\* the allowed list, and an error and no URL when the CSV resource it meets
\* first has any other URL; every CSV request goes to such a host.
C38_OnlyAllowedHostsRequested ==
    /\ gen.pc = "fetchCSV" =>
        \A reply \in CkanReplies :
            LET resolved == resolveCSVURLFrom(reply)
                csv == SelectSeq(reply.Resources,
                                 LAMBDA r : r.Format \in {"CSV", "csv"} /\ r.URL # "")
            IN  /\ resolved.err # nil <=> resolved.url = ""
                /\ resolved.url # "" =>
                    /\ urlParse(resolved.url).Scheme = "https"
                    /\ urlParse(resolved.url).Hostname \in {"www8.cao.go.jp", "www.cao.go.jp"}
                    /\ resolved.url = csv[1].URL
                /\ (/\ ~reply.err
                    /\ reply.StatusCode = 200
                    /\ reply.Success
                    /\ csv # <<>>
                    /\ \/ urlParse(csv[1].URL).err
                       \/ urlParse(csv[1].URL).Scheme # "https"
                       \/ urlParse(csv[1].URL).Hostname
                              \notin {"www8.cao.go.jp", "www.cao.go.jp"})
                   => resolved.err # nil
    /\ \A i \in 2..Len(gen.sent) :
        /\ ~urlParse(gen.sent[i]).err
        /\ urlParse(gen.sent[i]).Scheme = "https"
        /\ urlParse(gen.sent[i]).Hostname \in {"www8.cao.go.jp", "www.cao.go.jp"}

C38_Witness ==
    /\ gen.resolved = "HTTPS://www8.cao.go.jp:8443/syukujitsu.csv"
    /\ Len(gen.sent) = 2
    /\ gen.sent[2] = gen.resolved

\* The steps of main in order.
mainSteps == <<"fetchCSV", "parseCSV", "minExpectedRows", "generate", "WriteFile">>

\* C39: the output file is written only after fetch, parse, the check of at
\* least 1000 holidays and the generation succeeded, in that order; a run
\* that fails before the write leaves the file as it was.
C39_WriteOnlyAfterAllSteps ==
    /\ Len(gen.steps) <= Len(mainSteps)
    /\ gen.steps = SubSeq(mainSteps, 1, Len(gen.steps))
    /\ gen.file # "old" =>
        /\ Len(gen.steps) >= 4
        /\ gen.holidays >= 1000
        /\ gen.pc \in {"exit 0", "exit 1"}
    /\ (gen.pc = "exit 1" /\ Len(gen.steps) < 4) => gen.file = "old"
    /\ gen.pc = "exit 0" <=> gen.steps = mainSteps
    /\ gen.pc = "exit 0" => gen.file = "new"

C39_Witness ==
    /\ gen.pc = "exit 0"
    /\ gen.file = "new"
    /\ gen.holidays = 1000
    /\ Len(gen.results) = 3

====
